---- MODULE Spec2Model ----
(***************************************************************************)
(* Model of the ML backend of chef-gpt: the recipe ranker, the meal plan,  *)
(* the pairings and the difficulty estimate                                *)
(* (app/models/recipe_recommender.py), the nutrition analyzer              *)
(* (app/models/nutrition_analyzer.py) and the lazily loaded models of      *)
(* app/main.py.                                                            *)
(*                                                                         *)
(* Conventions.  A Python str is a sequence of one-character strings, so   *)
(* that lower(), split(), "in" and the regular expressions are computed    *)
(* character by character.  An Optional value is a sequence of length at   *)
(* most one: <<>> is None and <<v>> is the value v.  Similarity scores are *)
(* hundredths (100 stands for 1.0).                                        *)
(***************************************************************************)
EXTENDS Integers, Sequences, FiniteSets, TLC

VARIABLES
  recipe_database,    \* RecipeRecommender.recipe_database (Optional DataFrame)
  recipe_embeddings,  \* RecipeRecommender.recipe_embeddings (Optional array)
  sentence_model,     \* "ok" or "broken": whether sentence_model.encode works
  argsort_ties,       \* how the installed numpy's quicksort argsort leaves
                      \* equal keys: "kept" in place or "exchanged"
  request,            \* arguments of the last completed find_recipes call
  response,           \* what that call returned
  pc,                 \* per concurrent call: "idle", "awaiting" or "done"
  call,               \* per concurrent call: its arguments
  filtered_recipes,   \* per concurrent call: its local filtered_recipes
  returned,           \* per concurrent call: the list it returned
  interleaved,        \* some call began while another one was suspended
  nutrition_call,     \* the call made on the nutrition analyzer: its
                      \* arguments and, once done, its result
  meal_plan_call,     \* the generate_meal_plan call: its arguments and
                      \* its local variables
  analysis_call,      \* the generate_pairings or estimate_difficulty call:
                      \* its arguments and, once done, its result
  model_instance,     \* main.py: the globals food_model, nutrition_analyzer,
                      \* recipe_recommender and tag_generator
  load_completions,   \* per model: the load_model calls that completed
  handed_out,         \* what the last dependency getter call gave
  status_report,      \* the last answer of /models/status
  serving             \* the startup event has run

rank_vars == << recipe_database, recipe_embeddings, sentence_model, argsort_ties,
                request, response >>

conc_vars == << pc, call, filtered_recipes, returned, interleaved >>

nutrition_vars == << nutrition_call >>

plan_vars == << meal_plan_call >>

analysis_vars == << analysis_call >>

service_vars == << model_instance, load_completions, handed_out, status_report, serving >>

vars == << rank_vars, conc_vars, nutrition_vars, plan_vars, analysis_vars, service_vars >>

None == << >>
Some(v) == << v >>

Min(a, b) == IF a <= b THEN a ELSE b

----------------------------------------------------------------------------
(* Python string operations                                                *)

\* the characters str.lower() changes, each with the character it gives,
\* for the characters up to U+00FF
lower_pairs ==
  {
    <<"A", "a">>, <<"B", "b">>, <<"C", "c">>, <<"D", "d">>, <<"E", "e">>, <<"F", "f">>,
    <<"G", "g">>, <<"H", "h">>, <<"I", "i">>, <<"J", "j">>, <<"K", "k">>, <<"L", "l">>,
    <<"M", "m">>, <<"N", "n">>, <<"O", "o">>, <<"P", "p">>, <<"Q", "q">>, <<"R", "r">>,
    <<"S", "s">>, <<"T", "t">>, <<"U", "u">>, <<"V", "v">>, <<"W", "w">>, <<"X", "x">>,
    <<"Y", "y">>, <<"Z", "z">>, <<"À", "à">>, <<"Á", "á">>, <<"Â", "â">>, <<"Ã", "ã">>,
    <<"Ä", "ä">>, <<"Å", "å">>, <<"Æ", "æ">>, <<"Ç", "ç">>, <<"È", "è">>, <<"É", "é">>,
    <<"Ê", "ê">>, <<"Ë", "ë">>, <<"Ì", "ì">>, <<"Í", "í">>, <<"Î", "î">>, <<"Ï", "ï">>,
    <<"Ð", "ð">>, <<"Ñ", "ñ">>, <<"Ò", "ò">>, <<"Ó", "ó">>, <<"Ô", "ô">>, <<"Õ", "õ">>,
    <<"Ö", "ö">>, <<"Ø", "ø">>, <<"Ù", "ù">>, <<"Ú", "ú">>, <<"Û", "û">>, <<"Ü", "ü">>,
    <<"Ý", "ý">>, <<"Þ", "þ">>
  }

Capitals == { p[1] : p \in lower_pairs }

LowerChar(c) ==
  IF c \in Capitals THEN (CHOOSE p \in lower_pairs : p[1] = c)[2] ELSE c

RECURSIVE Lower(_)
\* str.lower(), computed on the two halves of s
Lower(s) ==
  IF Len(s) = 0 THEN << >>
  ELSE IF Len(s) = 1 THEN << LowerChar(s[1]) >>
  ELSE LET h == Len(s) \div 2
       IN  Lower(SubSeq(s, 1, h)) \o Lower(SubSeq(s, h + 1, Len(s)))

\* k occurs in t starting at position i
MatchAt(t, k, i) == \A j \in 1..Len(k) : t[i + j - 1] = k[j]

\* Python "k in t" for strings
Contains(t, k) == \E i \in 1..(Len(t) - Len(k) + 1) : MatchAt(t, k, i)

RECURSIVE Join(_, _)
\* sep.join(parts)
Join(sep, parts) ==
  IF parts = << >> THEN << >>
  ELSE IF Len(parts) = 1 THEN parts[1]
  ELSE parts[1] \o sep \o Join(sep, Tail(parts))

\* the characters str.isspace() holds for, which are those of \s, up to
\* U+00FF: tab, line feed, vertical tab, form feed, carriage return, the
\* separators U+001C to U+001F, the space, next line U+0085 and the
\* no-break space U+00A0
Whitespace ==
  { "\t", "\n", "", "\f", "\r", "", "", "", "", " ", "", " " }

IsSpace(c) == c \in Whitespace

RECURSIVE SplitFrom(_, _, _)
\* words of s from position i on, cur being the word under construction
SplitFrom(s, i, cur) ==
  IF i > Len(s) THEN (IF cur = << >> THEN << >> ELSE << cur >>)
  ELSE IF IsSpace(s[i])
       THEN (IF cur = << >> THEN SplitFrom(s, i + 1, << >>)
             ELSE << cur >> \o SplitFrom(s, i + 1, << >>))
       ELSE SplitFrom(s, i + 1, Append(cur, s[i]))

\* str.split()
Split(s) == SplitFrom(s, 1, << >>)

Range(f) == { f[x] : x \in DOMAIN f }

\* the list whose k-th element is f[k], built once
List(f) == f \o << >>

----------------------------------------------------------------------------
(* The recipe corpus                                                       *)

sample_recipes ==
  << [id |-> "1",
      title |-> <<"C","l","a","s","s","i","c"," ","S","p","a","g","h","e","t","t","i"," ","C","a","r","b","o","n","a","r","a">>,
      description |-> <<"C","r","e","a","m","y"," ","I","t","a","l","i","a","n"," ","p","a","s","t","a"," ","w","i","t","h"," ","e","g","g","s",","," ","c","h","e","e","s","e",","," ","a","n","d"," ","p","a","n","c","e","t","t","a">>,
      ingredients |-> << <<"s","p","a","g","h","e","t","t","i">>, <<"e","g","g","s">>, <<"p","a","r","m","e","s","a","n"," ","c","h","e","e","s","e">>, <<"p","a","n","c","e","t","t","a">>, <<"b","l","a","c","k"," ","p","e","p","p","e","r">>, <<"o","l","i","v","e"," ","o","i","l">> >>,
      tags |-> << <<"p","a","s","t","a">>, <<"i","t","a","l","i","a","n">>, <<"c","o","m","f","o","r","t","-","f","o","o","d">>, <<"d","i","n","n","e","r">> >>,
      prep_time |-> 15, cook_time |-> 20],
     [id |-> "2",
      title |-> <<"C","h","i","c","k","e","n"," ","S","t","i","r"," ","F","r","y">>,
      description |-> <<"Q","u","i","c","k"," ","a","n","d"," ","h","e","a","l","t","h","y"," ","c","h","i","c","k","e","n"," ","w","i","t","h"," ","v","e","g","e","t","a","b","l","e","s">>,
      ingredients |-> << <<"c","h","i","c","k","e","n"," ","b","r","e","a","s","t">>, <<"b","r","o","c","c","o","l","i">>, <<"b","e","l","l"," ","p","e","p","p","e","r">>, <<"s","o","y"," ","s","a","u","c","e">>, <<"g","i","n","g","e","r">>, <<"g","a","r","l","i","c">>, <<"r","i","c","e">> >>,
      tags |-> << <<"c","h","i","c","k","e","n">>, <<"s","t","i","r","-","f","r","y">>, <<"h","e","a","l","t","h","y">>, <<"q","u","i","c","k">>, <<"d","i","n","n","e","r">> >>,
      prep_time |-> 10, cook_time |-> 15],
     [id |-> "3",
      title |-> <<"C","a","e","s","a","r"," ","S","a","l","a","d">>,
      description |-> <<"C","l","a","s","s","i","c"," ","R","o","m","a","n"," ","s","a","l","a","d"," ","w","i","t","h"," ","c","r","i","s","p","y"," ","c","r","o","u","t","o","n","s">>,
      ingredients |-> << <<"r","o","m","a","i","n","e"," ","l","e","t","t","u","c","e">>, <<"p","a","r","m","e","s","a","n"," ","c","h","e","e","s","e">>, <<"c","r","o","u","t","o","n","s">>, <<"c","a","e","s","a","r"," ","d","r","e","s","s","i","n","g">>, <<"a","n","c","h","o","v","i","e","s">> >>,
      tags |-> << <<"s","a","l","a","d">>, <<"v","e","g","e","t","a","r","i","a","n">>, <<"l","u","n","c","h">>, <<"f","r","e","s","h">>, <<"i","t","a","l","i","a","n">> >>,
      prep_time |-> 15, cook_time |-> 0],
     [id |-> "4",
      title |-> <<"B","e","e","f"," ","T","a","c","o","s">>,
      description |-> <<"S","p","i","c","y"," ","g","r","o","u","n","d"," ","b","e","e","f"," ","t","a","c","o","s"," ","w","i","t","h"," ","f","r","e","s","h"," ","t","o","p","p","i","n","g","s">>,
      ingredients |-> << <<"g","r","o","u","n","d"," ","b","e","e","f">>, <<"t","a","c","o"," ","s","h","e","l","l","s">>, <<"o","n","i","o","n">>, <<"t","o","m","a","t","o">>, <<"l","e","t","t","u","c","e">>, <<"c","h","e","e","s","e">>, <<"c","u","m","i","n">>, <<"c","h","i","l","i"," ","p","o","w","d","e","r">> >>,
      tags |-> << <<"m","e","x","i","c","a","n">>, <<"b","e","e","f">>, <<"t","a","c","o","s">>, <<"d","i","n","n","e","r">>, <<"s","p","i","c","y">> >>,
      prep_time |-> 10, cook_time |-> 15],
     [id |-> "5",
      title |-> <<"V","e","g","e","t","a","b","l","e"," ","C","u","r","r","y">>,
      description |-> <<"A","r","o","m","a","t","i","c"," ","v","e","g","e","t","a","b","l","e"," ","c","u","r","r","y"," ","w","i","t","h"," ","c","o","c","o","n","u","t"," ","m","i","l","k">>,
      ingredients |-> << <<"m","i","x","e","d"," ","v","e","g","e","t","a","b","l","e","s">>, <<"c","o","c","o","n","u","t"," ","m","i","l","k">>, <<"c","u","r","r","y"," ","p","o","w","d","e","r">>, <<"g","i","n","g","e","r">>, <<"g","a","r","l","i","c">>, <<"o","n","i","o","n">>, <<"r","i","c","e">> >>,
      tags |-> << <<"c","u","r","r","y">>, <<"v","e","g","e","t","a","r","i","a","n">>, <<"i","n","d","i","a","n">>, <<"c","o","c","o","n","u","t">>, <<"s","p","i","c","y">>, <<"d","i","n","n","e","r">> >>,
      prep_time |-> 15, cook_time |-> 25],
     [id |-> "6",
      title |-> <<"G","r","e","e","k"," ","Y","o","g","u","r","t"," ","P","a","r","f","a","i","t">>,
      description |-> <<"H","e","a","l","t","h","y"," ","b","r","e","a","k","f","a","s","t"," ","w","i","t","h"," ","y","o","g","u","r","t",","," ","b","e","r","r","i","e","s",","," ","a","n","d"," ","g","r","a","n","o","l","a">>,
      ingredients |-> << <<"g","r","e","e","k"," ","y","o","g","u","r","t">>, <<"m","i","x","e","d"," ","b","e","r","r","i","e","s">>, <<"g","r","a","n","o","l","a">>, <<"h","o","n","e","y">>, <<"a","l","m","o","n","d","s">> >>,
      tags |-> << <<"b","r","e","a","k","f","a","s","t">>, <<"h","e","a","l","t","h","y">>, <<"g","r","e","e","k">>, <<"y","o","g","u","r","t">>, <<"b","e","r","r","i","e","s">>, <<"q","u","i","c","k">> >>,
      prep_time |-> 5, cook_time |-> 0] >>

extra_recipes ==
  << [id |-> "7",
      title |-> <<"T","o","f","u"," ","B","o","w","l">>,
      description |-> <<"C","r","i","s","p","y"," ","t","o","f","u">>,
      ingredients |-> << <<"t","o","f","u">>, <<"r","i","c","e">> >>,
      tags |-> << <<"V","e","g","a","n">>, <<"l","u","n","c","h">> >>,
      prep_time |-> 10, cook_time |-> 10],
     [id |-> "8",
      title |-> <<"H","a","m"," ","R","o","l","l">>,
      description |-> <<"R","y","e"," ","r","o","l","l">>,
      ingredients |-> << <<"m","u","s","t","a","r","d">> >>,
      tags |-> << <<"L","u","n","c","h">> >>,
      prep_time |-> 5, cook_time |-> 0],
     [id |-> "9",
      title |-> <<"O","a","t"," ","P","o","r","r","i","d","g","e">>,
      description |-> <<"W","a","r","m"," ","o","a","t","s">>,
      ingredients |-> << <<"o","a","t","s">>, <<"w","a","t","e","r">> >>,
      tags |-> << <<"b","r","e","a","k","f","a","s","t">> >>,
      prep_time |-> 2, cook_time |-> 8] >>


\* the f-string of load_recipe_database
text_representation(r) ==
  r.title \o << " " >> \o r.description \o << " " >>
    \o Join(<< " " >>, r.ingredients) \o << " " >> \o Join(<< " " >>, r.tags)

BaseColumns ==
  { "id", "title", "description", "ingredients", "instructions", "cuisine",
    "difficulty", "prep_time", "cook_time", "servings", "tags",
    "text_representation" }

\* pd.DataFrame(recipes) with the text_representation column added; the row
\* labels are the default RangeIndex 0..n-1.  A row keeps the cells that
\* find_recipes and its callers read; description and ingredients are read
\* only here, to build text_representation.
load_recipe_database(recipes) ==
  [ index |-> List([i \in 1..Len(recipes) |-> i - 1]),
    rows |-> List([i \in 1..Len(recipes) |->
               [ id |-> recipes[i].id,
                 title |-> recipes[i].title,
                 tags |-> recipes[i].tags,
                 prep_time |-> recipes[i].prep_time,
                 cook_time |-> recipes[i].cook_time,
                 text_representation |-> text_representation(recipes[i]) ]]),
    columns |-> BaseColumns,
    similarity_score |-> << >> ]

----------------------------------------------------------------------------
(* Keyword tables and the text tests made on the corpus                    *)

vegetarian == <<"v","e","g","e","t","a","r","i","a","n">>
vegan == <<"v","e","g","a","n">>
gluten_free == <<"g","l","u","t","e","n","-","f","r","e","e">>

meat_keywords ==
  << <<"c","h","i","c","k","e","n">>, <<"b","e","e","f">>, <<"p","o","r","k">>, <<"f","i","s","h">>, <<"m","e","a","t">>, <<"b","a","c","o","n">>, <<"h","a","m">> >>

animal_keywords ==
  << <<"c","h","i","c","k","e","n">>, <<"b","e","e","f">>, <<"p","o","r","k">>, <<"f","i","s","h">>, <<"m","e","a","t">>, <<"d","a","i","r","y">>, <<"c","h","e","e","s","e">>, <<"m","i","l","k">>, <<"b","u","t","t","e","r">>, <<"e","g","g">>, <<"h","o","n","e","y">>, <<"b","a","c","o","n">> >>

gluten_keywords ==
  << <<"w","h","e","a","t">>, <<"f","l","o","u","r">>, <<"b","r","e","a","d">>, <<"p","a","s","t","a">>, <<"b","a","r","l","e","y">>, <<"r","y","e">> >>


\* the query strings given to find_recipes
Queries ==
  { << >>,
    <<"C","h","i","c","k","e","n","\t","d","i","n","n","e","r">>,
    <<"L","u","n","c","h">> }

\* the meal types generate_meal_plan asks for, in the order of its calls
MealTypes ==
  << <<"b","r","e","a","k","f","a","s","t">>, <<"l","u","n","c","h">>,
     <<"d","i","n","n","e","r">> >>

italian == <<"i","t","a","l","i","a","n">>
mexican == <<"m","e","x","i","c","a","n">>

\* the words of the queries find_meal_for_type builds
MealQueryWords ==
  Range(MealTypes) \cup { <<"r","e","c","i","p","e">>, italian, mexican }

\* The texts and the words on which "word in text.lower()" is evaluated
\* during a run: the test is computed once for each pair and looked up.
KnownTexts ==
  { text_representation(r) : r \in Range(sample_recipes) \cup Range(extra_recipes) }

KnownWords ==
  Range(meat_keywords) \cup Range(animal_keywords) \cup Range(gluten_keywords)
    \cup UNION { Range(Split(Lower(query))) : query \in Queries }
    \cup MealQueryWords

LowerContainsTable ==
  [ t \in KnownTexts |-> { w \in KnownWords : Contains(Lower(t), w) } ]

\* word in text.lower()
LowerContains(text, word) ==
  IF text \in KnownTexts /\ word \in KnownWords
  THEN word \in LowerContainsTable[text]
  ELSE Contains(Lower(text), word)

----------------------------------------------------------------------------
(* The embedding model and cosine similarity                               *)

\* Number of directions of the plane an embedding can take: a vector of the
\* model is the unit vector at angle 15 * k degrees, k in 0..AngleSteps-1.
AngleSteps == 24

\* 100 * cos(15 * d degrees), d in 0..12
CosTable == << 100, 97, 87, 71, 50, 26, 0, -26, -50, -71, -87, -97, -100 >>

\* SentenceTransformer.encode: the sentence model is an external
\* collaborator; it is deterministic, and the vector is a function of the
\* text alone.
Encode(text) == Len(text) % AngleSteps

\* sklearn cosine_similarity of two unit vectors: the cosine of their angle
cosine_similarity(a, b) ==
  LET d == (a - b) % AngleSteps
  IN  CosTable[(IF d > AngleSteps \div 2 THEN AngleSteps - d ELSE d) + 1]

\* precompute_embeddings: one vector per recipe, row i of the array for the
\* recipe labelled i; None when encoding or fitting raised
precompute_embeddings(df, fit_ok) ==
  IF fit_ok
  THEN Some([i \in 0..(Len(df.rows) - 1) |-> Encode(df.rows[i + 1].text_representation)])
  ELSE None

----------------------------------------------------------------------------
(* filter_by_dietary_restrictions                                          *)

RECURSIVE SelectPositions(_, _, _)
\* the increasing sequence of the positions i..n that are in keep
SelectPositions(i, n, keep) ==
  IF i > n THEN << >>
  ELSE IF i \in keep THEN << i >> \o SelectPositions(i + 1, n, keep)
  ELSE SelectPositions(i + 1, n, keep)

\* df[mask]: a new frame holding the rows at the positions in keep, with
\* their labels and every column of df
BooleanIndex(df, keep) ==
  LET pos == SelectPositions(1, Len(df.rows), keep)
  IN  [ index |-> List([k \in 1..Len(pos) |-> df.index[pos[k]]]),
        rows |-> List([k \in 1..Len(pos) |-> df.rows[pos[k]]]),
        columns |-> df.columns,
        similarity_score |->
          IF df.similarity_score = << >> THEN << >>
          ELSE List([k \in 1..Len(pos) |-> df.similarity_score[pos[k]]]) ]

\* text.lower() matches the regular expression '|'.join(keywords): the
\* keywords hold no regex metacharacter, so the alternation matches iff some
\* keyword is a substring
LowerContainsAny(text, keywords) ==
  \E n \in 1..Len(keywords) : LowerContains(text, keywords[n])

\* df[~df['text_representation'].str.lower().str.contains('|'.join(keywords))]
ExcludeKeywords(df, keywords) ==
  BooleanIndex(df, { i \in 1..Len(df.rows) :
                       ~LowerContainsAny(df.rows[i].text_representation, keywords) })

\* ApplyRestriction comparing the name as given, without lower()
ApplyRestriction_CaseSensitive(df, restriction) ==
  IF restriction = vegetarian THEN ExcludeKeywords(df, meat_keywords)
  ELSE IF restriction = vegan THEN ExcludeKeywords(df, animal_keywords)
  ELSE IF restriction = gluten_free THEN ExcludeKeywords(df, gluten_keywords)
  ELSE df

\* ApplyRestriction leaving no recipe for a name it does not know
ApplyRestriction_UnknownExcludesAll(df, restriction) ==
  LET restriction_lower == Lower(restriction)
  IN  IF restriction_lower = vegetarian THEN ExcludeKeywords(df, meat_keywords)
      ELSE IF restriction_lower = vegan THEN ExcludeKeywords(df, animal_keywords)
      ELSE IF restriction_lower = gluten_free THEN ExcludeKeywords(df, gluten_keywords)
      ELSE BooleanIndex(df, { })

\* one iteration of the loop over the restrictions
ApplyRestriction(df, restriction) ==
  LET restriction_lower == Lower(restriction)
  IN  IF restriction_lower = vegetarian THEN ExcludeKeywords(df, meat_keywords)
      ELSE IF restriction_lower = vegan THEN ExcludeKeywords(df, animal_keywords)
      ELSE IF restriction_lower = gluten_free THEN ExcludeKeywords(df, gluten_keywords)
      ELSE df

RECURSIVE ApplyRestrictions(_, _)
ApplyRestrictions(df, restrictions) ==
  IF restrictions = << >> THEN df
  ELSE ApplyRestrictions(ApplyRestriction(df, Head(restrictions)), Tail(restrictions))

\* The result names the frame and tells whether it is the very object that
\* was passed in (the early return) or a fresh one (recipes_df.copy()).
filter_by_dietary_restrictions(recipes_df, restrictions) ==
  IF restrictions = << >>
  THEN [ same_object |-> TRUE, df |-> recipes_df ]
  ELSE [ same_object |-> FALSE, df |-> ApplyRestrictions(recipes_df, restrictions) ]

----------------------------------------------------------------------------
(* calculate_similarity_scores, boost_keyword_matches                      *)

\* the scores of the rows of recipes_df after the keyword boost
boost_keyword_matches(query, recipes_df, base_scores) ==
  LET query_words == Range(Split(Lower(query)))
  IN  List([ i \in 1..Len(recipes_df.rows) |->
          LET recipe_text == recipes_df.rows[i].text_representation
              matches == Cardinality({ w \in query_words : LowerContains(recipe_text, w) })
          IN  Min(100, base_scores[i] + matches * 10) ])

\* EmbeddingRow taking the position in the filtered frame for the label
EmbeddingRow_Positional(recipes_df, i) == i - 1

\* the row of the embedding array used for the row at position i of the frame
EmbeddingRow(recipes_df, i) == recipes_df.index[i]

calculate_similarity_scores(query, recipes_df, embeddings, model) ==
  IF model # "ok"
  THEN List([ i \in 1..Len(recipes_df.rows) |-> 0 ])  \* except: np.zeros(len(recipes_df))
  ELSE
    LET query_embedding == Encode(query)
        recipe_embeddings_ ==
          IF embeddings # None
          THEN List([ i \in 1..Len(recipes_df.rows) |->
                        embeddings[1][EmbeddingRow(recipes_df, i)] ])
          ELSE List([ i \in 1..Len(recipes_df.rows) |->
                        Encode(recipes_df.rows[i].text_representation) ])
        similarities ==
          List([ i \in 1..Len(recipes_df.rows) |->
                   cosine_similarity(query_embedding, recipe_embeddings_[i]) ])
    IN  boost_keyword_matches(query, recipes_df, similarities)

----------------------------------------------------------------------------
(* find_recipes                                                            *)

\* SetScoreColumn leaving an existing score column as it is
SetScoreColumn_KeepOld(df, scores) ==
  IF "similarity_score" \in df.columns THEN df
  ELSE [ df EXCEPT !.columns = @ \cup { "similarity_score" },
                   !.similarity_score = scores ]

\* df['similarity_score'] = scores
SetScoreColumn(df, scores) ==
  [ df EXCEPT !.columns = @ \cup { "similarity_score" },
              !.similarity_score = scores ]

\* FirstLargest with keep='last': the last row among the greatest
FirstLargest_KeepLast(df, cand) ==
  CHOOSE i \in cand :
    \A j \in cand : \/ df.similarity_score[j] < df.similarity_score[i]
                    \/ (df.similarity_score[j] = df.similarity_score[i] /\ j <= i)

\* position of the first row among cand with the greatest score
FirstLargest(df, cand) ==
  CHOOSE i \in cand :
    \A j \in cand : \/ df.similarity_score[j] < df.similarity_score[i]
                    \/ (df.similarity_score[j] = df.similarity_score[i] /\ i <= j)

\* position of the last row among cand with the greatest score
LastLargest(df, cand) ==
  CHOOSE i \in cand :
    \A j \in cand : \/ df.similarity_score[j] < df.similarity_score[i]
                    \/ (df.similarity_score[j] = df.similarity_score[i] /\ j <= i)

RECURSIVE NLargestFrom(_, _, _)
\* the n first occurrences of the greatest scores among cand, by a stable
\* (merge) sort: greatest first, rows of equal score in frame order
NLargestFrom(df, n, cand) ==
  IF n <= 0 \/ cand = {} THEN << >>
  ELSE LET i == FirstLargest(df, cand)
       IN  << i >> \o NLargestFrom(df, n - 1, cand \ { i })

\* The orders in which a quicksort argsort, which is no stable sort, may
\* leave rows of equal score: in place, as the insertion sort of short
\* arrays does, or not.  Of the orders that are not the frame's, the model
\* takes the reverse one.
ArgsortTies == { "kept", "exchanged" }

RECURSIVE SortValuesFrom(_, _, _)
\* Series.sort_values(ascending=False) of the score column, default kind
\* 'quicksort': the positions in cand by decreasing score, rows of equal
\* score in the order that ties gives
SortValuesFrom(df, ties, cand) ==
  IF cand = {} THEN << >>
  ELSE LET i == IF ties = "kept" THEN FirstLargest(df, cand)
                ELSE LastLargest(df, cand)
       IN  << i >> \o SortValuesFrom(df, ties, cand \ { i })

\* DataFrame.nlargest(n, 'similarity_score'), keep='first': the positions of
\* the rows taken, in the order of the result.  pandas returns no row for
\* n <= 0, the whole column sorted by sort_values for n >= len, and the n
\* first occurrences otherwise.
nlargest(df, n) ==
  IF n <= 0 THEN << >>
  ELSE IF n >= Len(df.rows) THEN SortValuesFrom(df, argsort_ties, 1..Len(df.rows))
  ELSE NLargestFrom(df, n, 1..Len(df.rows))

\* the dict built for one row of top_recipes (the cells kept by the model)
Recommendation(df, i) ==
  [ title |-> df.rows[i].title,
    tags |-> df.rows[i].tags,
    prep_time |-> df.rows[i].prep_time,
    cook_time |-> df.rows[i].cook_time,
    confidence_score |-> df.similarity_score[i] ]

\* Lines 186-199, up to the await: the normalised restriction list and the
\* filtered frame.  raised: the except branch is taken (no database loaded);
\* empty: the early "return []".
find_recipes_filter(database, dietary_restrictions) ==
  LET restrictions == IF dietary_restrictions = None THEN << >>
                      ELSE dietary_restrictions[1]
  IN  IF database = None
      THEN [ raised |-> TRUE, empty |-> FALSE, same_object |-> FALSE, df |-> << >> ]
      ELSE LET f == filter_by_dietary_restrictions(database[1], restrictions)
           IN  [ raised |-> FALSE, empty |-> (Len(f.df.rows) = 0),
                 same_object |-> f.same_object, df |-> f.df ]

\* find_recipes_rank with lines 205 and 206 exchanged: the rows are selected
\* on the score column the frame holds before the assignment (KeyError, hence
\* the empty list of the except branch, when it holds none)
find_recipes_rank_SelectFirst(frame, query, max_results, embeddings, model) ==
  LET scores == calculate_similarity_scores(query, frame, embeddings, model)
      scored == SetScoreColumn(frame, scores)
      top_recipes == IF "similarity_score" \in frame.columns
                     THEN nlargest(frame, max_results) ELSE << >>
  IN  [ frame |-> scored,
        recommendations |->
          List([ k \in 1..Len(top_recipes) |-> Recommendation(frame, top_recipes[k]) ]) ]

\* Lines 201-226 on the frame filtered_recipes: the frame after the
\* assignment of the score column, and the list returned
find_recipes_rank(frame, query, max_results, embeddings, model) ==
  LET scores == calculate_similarity_scores(query, frame, embeddings, model)
      scored == SetScoreColumn(frame, scores)
      top_recipes == nlargest(scored, max_results)
  IN  [ frame |-> scored,
        recommendations |->
          List([ k \in 1..Len(top_recipes) |-> Recommendation(scored, top_recipes[k]) ]) ]

\* The whole call run without suspension: the database it leaves and the
\* list it returns
find_recipes(database, embeddings, model, query, dietary_restrictions, max_results) ==
  LET f == find_recipes_filter(database, dietary_restrictions)
  IN  IF f.raised \/ f.empty
      THEN [ database |-> database, recommendations |-> << >> ]
      ELSE LET r == find_recipes_rank(f.df, query, max_results, embeddings, model)
           IN  [ database |-> IF f.same_object THEN Some(r.frame) ELSE database,
                 recommendations |-> r.recommendations ]

----------------------------------------------------------------------------
(* Inputs and initial states of the ranker                                 *)

\* greatest number of recipes of a corpus built from RecipePool
MaxCorpus == 2

\* number of find_recipes calls in progress at once
NumCalls == 2

\* the recipes that the corpora other than the sample corpus are made of
RecipePool ==
  << sample_recipes[2], extra_recipes[1], extra_recipes[2] >>

\* the sample corpus of load_recipe_database and every corpus of at most
\* MaxCorpus recipes of the pool, in the order of the pool
Corpora ==
  { sample_recipes } \cup
  { [k \in 1..Cardinality(S) |-> RecipePool[SelectPositions(1, Len(RecipePool), S)[k]]] :
      S \in { T \in SUBSET (1..Len(RecipePool)) : Cardinality(T) \in 1..MaxCorpus } }

RestrictionLists ==
  { None,
    Some(<< >>),
    Some(<< vegetarian >>),
    Some(<< <<"V","e","g","a","n">> >>),
    Some(<< gluten_free, vegetarian >>),
    Some(<< <<"k","e","t","o">> >>),
    Some(<< <<"d","a","i","r","y","-","f","r","e","e">>, vegetarian >>) }

\* max_results is an int without bounds in the request schema
MaxResultsValues == { -1, 0, 1, 2, 10 }

\* The states load_model can leave: the database loaded, with the embeddings
\* precomputed or reset to None (precompute_embeddings swallows its error);
\* or nothing loaded, when load_model raised before load_recipe_database.
\* ties: the argsort orders of the installations considered.
LoadModel(corpora, ties) ==
  /\ argsort_ties \in ties
  /\ \/ \E corpus \in corpora :
          \E cfg \in { << "ok", TRUE >>, << "ok", FALSE >>, << "broken", FALSE >> } :
            /\ recipe_database = Some(load_recipe_database(corpus))
            /\ sentence_model = cfg[1]
            /\ recipe_embeddings = precompute_embeddings(load_recipe_database(corpus), cfg[2])
     \/ /\ recipe_database = None
        /\ sentence_model = "broken"
        /\ recipe_embeddings = None

\* the globals of main.py
ModelNames == { "food_model", "nutrition_analyzer", "recipe_recommender", "tag_generator" }

\* main.py lines 51-55 at import: no instance exists, nothing was handed out
NotStarted ==
  /\ model_instance = [ name \in ModelNames |-> None ]
  /\ load_completions = [ name \in ModelNames |-> 0 ]
  /\ handed_out = None
  /\ status_report = None
  /\ serving = FALSE

\* no generate_pairings or estimate_difficulty call is made
NoAnalysis == analysis_call = None

\* the concurrent calls of find_recipes
Calls == 1..NumCalls

NoCalls ==
  /\ pc = [ c \in Calls |-> "idle" ]
  /\ call = [ c \in Calls |-> None ]
  /\ filtered_recipes = [ c \in Calls |-> None ]
  /\ returned = [ c \in Calls |-> << >> ]
  /\ interleaved = FALSE

\* The sample corpus is loaded under either order of ties, the corpora built
\* from the pool under the order that keeps them.
InitRanker ==
  /\ \/ LoadModel({ sample_recipes }, ArgsortTies)
     \/ LoadModel(Corpora \ { sample_recipes }, { "kept" })
  /\ request = None
  /\ response = << >>
  /\ NoCalls
  /\ nutrition_call = None
  /\ meal_plan_call = None
  /\ NoAnalysis
  /\ NotStarted

\* One complete find_recipes call
FindRecipes(query, dietary_restrictions, max_results) ==
  LET r == find_recipes(recipe_database, recipe_embeddings, sentence_model,
                        query, dietary_restrictions, max_results)
      req == [ query |-> query, dietary_restrictions |-> dietary_restrictions,
               max_results |-> max_results ]
  IN  /\ recipe_database' = r.database
      /\ request' = Some(req)
      /\ response' = r.recommendations
      /\ UNCHANGED << recipe_embeddings, sentence_model, argsort_ties, conc_vars, nutrition_vars,
                      plan_vars,
                  analysis_vars, service_vars >>

NextRanker ==
  \E query \in Queries, dietary_restrictions \in RestrictionLists,
     max_results \in MaxResultsValues :
    FindRecipes(query, dietary_restrictions, max_results)

SpecRanker == InitRanker /\ [][NextRanker]_vars

----------------------------------------------------------------------------
(* Properties of find_recipes                                              *)

\* the restriction list of the last call, None standing for the empty list
RequestRestrictions ==
  IF request[1].dietary_restrictions = None THEN << >>
  ELSE request[1].dietary_restrictions[1]

\* position in the loaded corpus of the recipe with this title
CorpusPosition(title) ==
  CHOOSE i \in 1..Len(recipe_database[1].rows) : recipe_database[1].rows[i].title = title

CorpusText(title) == recipe_database[1].rows[CorpusPosition(title)].text_representation

\* the exclude keywords of a restriction name, the name compared in lower case
ExcludedBy(restriction) ==
  LET name == Lower(restriction)
  IN  IF name = vegetarian THEN Range(meat_keywords)
      ELSE IF name = vegan THEN Range(animal_keywords)
      ELSE IF name = gluten_free THEN Range(gluten_keywords)
      ELSE { }

\* the text holds an exclude keyword of one of the restrictions
Violates(text, restrictions) ==
  \E n \in 1..Len(restrictions) :
    \E w \in ExcludedBy(restrictions[n]) : LowerContains(text, w)

\* C1: no recipe returned by find_recipes has a lowercased flattened text
\* containing an exclude keyword of an active restriction (vegetarian, vegan,
\* gluten-free, names compared case-insensitively), at any rank; on the
\* error path nothing is returned.
C1_NoRestrictedRecipeReturned ==
  request # None =>
    /\ recipe_database = None => response = << >>
    /\ \A k \in 1..Len(response) :
         ~Violates(CorpusText(response[k].title), RequestRestrictions)

\* C1 witness: a call with an active restriction on a corpus holding a
\* recipe that violates it returned some recipe
C1_Witness ==
  /\ request # None
  /\ recipe_database # None
  /\ response # << >>
  /\ \E i \in 1..Len(recipe_database[1].rows) :
       Violates(recipe_database[1].rows[i].text_representation, RequestRestrictions)

\* the number of recipes of the corpus that pass the filter of the last call
Passing ==
  Cardinality({ i \in 1..Len(recipe_database[1].rows) :
                  ~Violates(recipe_database[1].rows[i].text_representation,
                            RequestRestrictions) })

\* the scores of the list are non-increasing
ScoresDescend ==
  \A k \in 1..(Len(response) - 1) :
    response[k].confidence_score >= response[k + 1].confidence_score

\* neighbours of equal score stand in corpus order
TiesInCorpusOrder ==
  \A k \in 1..(Len(response) - 1) :
    response[k].confidence_score = response[k + 1].confidence_score =>
      CorpusPosition(response[k].title) < CorpusPosition(response[k + 1].title)

\* C2 as stated: the list returned has at most max_results entries and at
\* most as many as recipes pass the dietary filter, its scores are
\* non-increasing, and recipes of equal score appear in corpus order.
C2_AtMostMaxResultsInCorpusOrder ==
  (request # None /\ recipe_database # None) =>
    /\ Len(response) <= request[1].max_results
    /\ Len(response) <= Passing
    /\ ScoresDescend
    /\ TiesInCorpusOrder

\* C2: the list returned has at most max(0, max_results) entries and at
\* most as many as recipes pass the dietary filter, and its scores are
\* non-increasing; when max_results is smaller than the number of recipes
\* that pass the filter, recipes of equal score appear in corpus order.
C2_BoundedAndOrdered ==
  (request # None /\ recipe_database # None) =>
    /\ Len(response) <= (IF request[1].max_results < 0 THEN 0 ELSE request[1].max_results)
    /\ Len(response) <= Passing
    /\ ScoresDescend
    /\ request[1].max_results < Passing => TiesInCorpusOrder

\* C2 witness: a list cut at max_results whose first two scores are equal
C2_Witness ==
  /\ request # None
  /\ recipe_database # None
  /\ Len(response) >= 2
  /\ Len(response) = request[1].max_results
  /\ Len(response) < Passing
  /\ response[1].confidence_score = response[2].confidence_score

\* a negative max_results on a corpus with recipes that pass the filter
C2_NegativeLimitReached ==
  /\ request # None
  /\ recipe_database # None
  /\ request[1].max_results < 0
  /\ Passing > 0
  /\ response = << >>

\* every passing recipe was returned, and two of equal score stand against
\* corpus order
C2_TiesExchangedReached ==
  /\ request # None
  /\ recipe_database # None
  /\ Len(response) = Passing
  /\ ScoresDescend
  /\ ~TiesInCorpusOrder

\* the number of distinct words of the query found in the lowercased text
KeywordMatches(query, text) ==
  Cardinality({ w \in Range(Split(Lower(query))) : LowerContains(text, w) })

\* C3: with precomputed embeddings, the score of every returned recipe is
\* the cosine similarity of the query with the embedding stored at that
\* recipe's own corpus index, plus the keyword boost of its own text,
\* capped at 1.0.
C3_ScoredWithOwnEmbedding ==
  (request # None /\ recipe_database # None /\ recipe_embeddings # None
     /\ sentence_model = "ok") =>
    \A k \in 1..Len(response) :
      LET i == CorpusPosition(response[k].title)
      IN  response[k].confidence_score =
            Min(100, cosine_similarity(Encode(request[1].query),
                                       recipe_embeddings[1][i - 1])
                       + 10 * KeywordMatches(request[1].query, CorpusText(response[k].title)))

\* C3 witness: the filter dropped a recipe that stands before a returned one
C3_Witness ==
  /\ request # None /\ recipe_database # None /\ recipe_embeddings # None
  /\ sentence_model = "ok"
  /\ \E k \in 1..Len(response) :
       \E j \in 1..(CorpusPosition(response[k].title) - 1) :
         Violates(recipe_database[1].rows[j].text_representation, RequestRestrictions)

\* C4: find_recipes leaves recipe_database (its columns included) and
\* recipe_embeddings unchanged.
C4_CorpusUnchanged ==
  [][recipe_database' = recipe_database /\ recipe_embeddings' = recipe_embeddings]_vars

\* the database as load_recipe_database built it: no score column
AsLoaded(database) ==
  IF database = None THEN None
  ELSE Some([ database[1] EXCEPT !.columns = BaseColumns, !.similarity_score = << >> ])

\* C5: the answer to a call does not depend on the calls made before it: it
\* is the answer the same call gets from the database as loaded, so two
\* calls with the same arguments return the same list.
C5_SameCallSameResult ==
  request # None =>
    response = find_recipes(AsLoaded(recipe_database), recipe_embeddings, sentence_model,
                            request[1].query, request[1].dietary_restrictions,
                            request[1].max_results).recommendations

\* C5 witness: a call answered from a database that an earlier call with
\* another query left its scores in
C5_Witness ==
  /\ request # None /\ recipe_database # None /\ response # << >>
  /\ "similarity_score" \in recipe_database[1].columns
  /\ request[1].dietary_restrictions # None
  /\ request[1].dietary_restrictions[1] # << >>

----------------------------------------------------------------------------
(* Concurrent find_recipes calls on the event loop: a coroutine runs        *)
(* without interruption from one await to the next, and the only await of   *)
(* find_recipes is the one of line 202.                                     *)

ConcurrentQueries ==
  { <<"c","h","i","c","k","e","n"," ","d","i","n","n","e","r">>,
    <<"L","u","n","c","h">> }

ConcurrentRestrictionLists == { Some(<< >>), Some(<< vegetarian >>) }

ConcurrentMaxResults == { 1, 10 }

InitConcurrent ==
  /\ LoadModel({ sample_recipes }, ArgsortTies)
  /\ request = None
  /\ response = << >>
  /\ NoCalls
  /\ nutrition_call = None
  /\ meal_plan_call = None
  /\ NoAnalysis
  /\ NotStarted

\* Lines 186-202: the call runs up to its await, or returns at once
Begin(c, query, dietary_restrictions, max_results) ==
  LET f == find_recipes_filter(recipe_database, dietary_restrictions)
  IN  /\ pc[c] = "idle"
      /\ call' = [ call EXCEPT ![c] =
                     Some([ query |-> query,
                            dietary_restrictions |-> dietary_restrictions,
                            max_results |-> max_results ]) ]
      /\ interleaved' = (interleaved \/ \E d \in Calls : pc[d] = "awaiting")
      /\ IF f.raised \/ f.empty
         THEN /\ pc' = [ pc EXCEPT ![c] = "done" ]
              /\ returned' = [ returned EXCEPT ![c] = << >> ]
              /\ UNCHANGED filtered_recipes
         ELSE /\ pc' = [ pc EXCEPT ![c] = "awaiting" ]
              /\ filtered_recipes' =
                   [ filtered_recipes EXCEPT ![c] =
                       Some([ same_object |-> f.same_object,
                              df |-> IF f.same_object THEN << >> ELSE f.df ]) ]
              /\ UNCHANGED returned
      /\ UNCHANGED << rank_vars, nutrition_vars, plan_vars,
                  analysis_vars, service_vars >>

\* Lines 202-226: the call is resumed and runs to its return.  When its
\* filtered_recipes is the database object itself, it reads and writes the
\* database as it is now.
Resume(c) ==
  /\ pc[c] = "awaiting"
  /\ LET local == filtered_recipes[c][1]
         frame == IF local.same_object THEN recipe_database[1] ELSE local.df
         r == find_recipes_rank(frame, call[c][1].query, call[c][1].max_results,
                                recipe_embeddings, sentence_model)
     IN  /\ recipe_database' = IF local.same_object THEN Some(r.frame)
                               ELSE recipe_database
         /\ returned' = [ returned EXCEPT ![c] = r.recommendations ]
  /\ pc' = [ pc EXCEPT ![c] = "done" ]
  /\ filtered_recipes' = [ filtered_recipes EXCEPT ![c] = None ]
  /\ UNCHANGED << recipe_embeddings, sentence_model, argsort_ties, request, response,
                  call, interleaved, nutrition_vars, plan_vars,
                  analysis_vars, service_vars >>

NextConcurrent ==
  \/ \E c \in Calls, query \in ConcurrentQueries,
        dietary_restrictions \in ConcurrentRestrictionLists,
        max_results \in ConcurrentMaxResults :
       Begin(c, query, dietary_restrictions, max_results)
  \/ \E c \in Calls : Resume(c)

SpecConcurrent == InitConcurrent /\ [][NextConcurrent]_vars

\* C6: whatever the interleaving of the calls, each call returns the list it
\* returns when it runs alone on the database as loaded.
C6_InterleavedAsAlone ==
  \A c \in Calls :
    pc[c] = "done" =>
      returned[c] = find_recipes(AsLoaded(recipe_database), recipe_embeddings,
                                 sentence_model, call[c][1].query,
                                 call[c][1].dietary_restrictions,
                                 call[c][1].max_results).recommendations

\* C6 witness: two calls without restrictions and with different queries
\* overlapped and both returned recipes
C6_Witness ==
  /\ interleaved
  /\ \A c \in Calls : pc[c] = "done" /\ returned[c] # << >>
  /\ \E c, d \in Calls :
       /\ call[c][1].query # call[d][1].query
       /\ call[c][1].dietary_restrictions = Some(<< >>)
       /\ call[d][1].dietary_restrictions = Some(<< >>)
       /\ returned[c][1].title # returned[d][1].title

----------------------------------------------------------------------------
(* The nutrition analyzer: regular expressions of clean_ingredient_name    *)

Digits == { "0", "1", "2", "3", "4", "5", "6", "7", "8", "9" }

LowerLetters ==
  { "a", "b", "c", "d", "e", "f", "g", "h", "i", "j", "k", "l", "m",
    "n", "o", "p", "q", "r", "s", "t", "u", "v", "w", "x", "y", "z" }

IsDigit(c) == c \in Digits

\* the small letters from U+0080 to U+00FF
OtherLetters ==
  {
    "ª", "µ", "º", "ß", "à", "á", "â", "ã", "ä", "å", "æ", "ç",
    "è", "é", "ê", "ë", "ì", "í", "î", "ï", "ð", "ñ", "ò", "ó",
    "ô", "õ", "ö", "ø", "ù", "ú", "û", "ü", "ý", "þ", "ÿ"
  }

\* the numerals from U+0080 to U+00FF, none of them a decimal digit
OtherNumerals == { "²", "³", "¹", "¼", "½", "¾" }

\* \w: a letter, a numeral or the underscore
IsWordChar(c) ==
  \/ LowerChar(c) \in LowerLetters \cup OtherLetters
  \/ c \in Digits \cup OtherNumerals
  \/ c = "_"

RECURSIVE StripLeft(_)
StripLeft(s) == IF s # << >> /\ IsSpace(Head(s)) THEN StripLeft(Tail(s)) ELSE s

RECURSIVE StripRight(_)
StripRight(s) ==
  IF s # << >> /\ IsSpace(s[Len(s)]) THEN StripRight(SubSeq(s, 1, Len(s) - 1)) ELSE s

\* str.strip()
Strip(s) == StripRight(StripLeft(s))

\* k occurs in t at position i
StartsWithAt(t, k, i) == i + Len(k) - 1 <= Len(t) /\ MatchAt(t, k, i)

\* first position from i on that holds no digit (Len(s) + 1 if none)
DigitsEnd(s, i) ==
  CHOOSE j \in i..(Len(s) + 1) :
    /\ j = Len(s) + 1 \/ ~IsDigit(s[j])
    /\ \A k \in i..(j - 1) : IsDigit(s[k])

\* first position from i on that holds no whitespace (Len(s) + 1 if none)
SpacesEnd(s, i) ==
  CHOOSE j \in i..(Len(s) + 1) :
    /\ j = Len(s) + 1 \/ ~IsSpace(s[j])
    /\ \A k \in i..(j - 1) : IsSpace(s[k])

nutrition_db_index ==
  <<
     <<"a","p","p","l","e">>, <<"b","a","n","a","n","a">>,
     <<"o","r","a","n","g","e">>, <<"t","o","m","a","t","o">>,
     <<"o","n","i","o","n">>, <<"c","a","r","r","o","t">>,
     <<"b","r","o","c","c","o","l","i">>, <<"s","p","i","n","a","c","h">>,
     <<"c","h","i","c","k","e","n","_","b","r","e","a","s","t">>, <<"b","e","e","f","_","l","e","a","n">>,
     <<"s","a","l","m","o","n">>, <<"e","g","g","s">>,
     <<"r","i","c","e","_","w","h","i","t","e">>, <<"p","a","s","t","a">>,
     <<"b","r","e","a","d","_","w","h","i","t","e">>, <<"f","l","o","u","r">>,
     <<"m","i","l","k","_","w","h","o","l","e">>, <<"c","h","e","e","s","e","_","c","h","e","d","d","a","r">>,
     <<"b","u","t","t","e","r">>, <<"o","l","i","v","e","_","o","i","l">>,
     <<"s","a","l","t">>, <<"b","l","a","c","k","_","p","e","p","p","e","r">>
  >>

ingredient_aliases ==
  <<
     << <<"c","h","i","c","k","e","n">>, <<"c","h","i","c","k","e","n","_","b","r","e","a","s","t">> >>,
     << <<"b","e","e","f">>, <<"b","e","e","f","_","l","e","a","n">> >>,
     << <<"f","i","s","h">>, <<"s","a","l","m","o","n">> >>,
     << <<"e","g","g">>, <<"e","g","g","s">> >>,
     << <<"r","i","c","e">>, <<"r","i","c","e","_","w","h","i","t","e">> >>,
     << <<"w","h","i","t","e","_","r","i","c","e">>, <<"r","i","c","e","_","w","h","i","t","e">> >>,
     << <<"c","h","e","e","s","e">>, <<"c","h","e","e","s","e","_","c","h","e","d","d","a","r">> >>,
     << <<"b","r","e","a","d">>, <<"b","r","e","a","d","_","w","h","i","t","e">> >>,
     << <<"m","i","l","k">>, <<"m","i","l","k","_","w","h","o","l","e">> >>
  >>

remove_words ==
  <<
     <<"f","r","e","s","h">>, <<"d","r","i","e","d">>,
     <<"c","h","o","p","p","e","d">>, <<"d","i","c","e","d">>,
     <<"s","l","i","c","e","d">>, <<"m","i","n","c","e","d">>,
     <<"g","r","a","t","e","d">>, <<"c","o","o","k","e","d">>,
     <<"r","a","w">>, <<"o","r","g","a","n","i","c">>,
     <<"f","r","e","e","-","r","a","n","g","e">>, <<"e","x","t","r","a">>,
     <<"v","i","r","g","i","n">>, <<"u","n","s","a","l","t","e","d">>,
     <<"s","a","l","t","e","d">>, <<"g","r","o","u","n","d">>,
     <<"w","h","o","l","e">>, <<"l","a","r","g","e">>,
     <<"m","e","d","i","u","m">>, <<"s","m","a","l","l">>
  >>

quantity_units ==
  <<
     <<"c","u","p">>, <<"c","u","p","s">>, <<"t","b","s","p">>, <<"t","s","p">>,
     <<"o","z">>, <<"l","b">>, <<"g">>, <<"k","g">>,
     <<"m","l">>, <<"l">>
  >>


\* length of the first alternative of (cup|cups|...|l) that matches at
\* position i, 0 when none does
UnitLengthAt(s, i) ==
  LET hits == { n \in 1..Len(quantity_units) : StartsWithAt(s, quantity_units[n], i) }
  IN  IF hits = { } THEN 0
      ELSE Len(quantity_units[CHOOSE n \in hits : \A m \in hits : n <= m])

RECURSIVE SubQuantityUnit(_, _)
\* re.sub(r'\d+\s*(cup|cups|tbsp|tsp|oz|lb|g|kg|ml|l)\s*', '', s) from
\* position i on: a match is a run of digits, whitespace, the first
\* alternative that fits, and the whitespace after it
SubQuantityUnit(s, i) ==
  IF i > Len(s) THEN << >>
  ELSE IF IsDigit(s[i])
       THEN LET k == SpacesEnd(s, DigitsEnd(s, i))
                n == UnitLengthAt(s, k)
            IN  IF n > 0 THEN SubQuantityUnit(s, SpacesEnd(s, k + n))
                ELSE << s[i] >> \o SubQuantityUnit(s, i + 1)
       ELSE << s[i] >> \o SubQuantityUnit(s, i + 1)

RECURSIVE SubDigits(_)
\* re.sub(r'\d+', '', s)
SubDigits(s) ==
  IF s = << >> THEN << >>
  ELSE IF IsDigit(Head(s)) THEN SubDigits(Tail(s))
  ELSE << Head(s) >> \o SubDigits(Tail(s))

RECURSIVE ReplaceFrom(_, _, _)
\* s.replace(word, "") from position i on
ReplaceFrom(s, word, i) ==
  IF i > Len(s) THEN << >>
  ELSE IF StartsWithAt(s, word, i) THEN ReplaceFrom(s, word, i + Len(word))
  ELSE << s[i] >> \o ReplaceFrom(s, word, i + 1)

RECURSIVE RemoveWords(_, _)
\* the loop "for word in remove_words: cleaned = cleaned.replace(word, '')"
RemoveWords(s, words) ==
  IF words = << >> THEN s
  ELSE RemoveWords(ReplaceFrom(s, Head(words), 1), Tail(words))

RECURSIVE SubPunctuation(_)
\* re.sub(r'[^\w\s]', '', s)
SubPunctuation(s) ==
  IF s = << >> THEN << >>
  ELSE IF IsWordChar(Head(s)) \/ IsSpace(Head(s))
       THEN << Head(s) >> \o SubPunctuation(Tail(s))
       ELSE SubPunctuation(Tail(s))

RECURSIVE SubSpaces(_, _)
\* re.sub(r'\s+', '_', s) from position i on
SubSpaces(s, i) ==
  IF i > Len(s) THEN << >>
  ELSE IF IsSpace(s[i]) THEN << "_" >> \o SubSpaces(s, SpacesEnd(s, i))
  ELSE << s[i] >> \o SubSpaces(s, i + 1)

clean_ingredient_name(name) ==
  LET lowered == Strip(Lower(name))
      no_units == SubDigits(SubQuantityUnit(lowered, 1))
      no_words == RemoveWords(no_units, remove_words)
  IN  SubSpaces(Strip(SubPunctuation(no_words)), 1)

----------------------------------------------------------------------------
(* initialize_ingredient_matcher: the TF-IDF matcher                       *)

nutrition_db_keys == Range(nutrition_db_index)

alias_keys == { ingredient_aliases[n][1] : n \in 1..Len(ingredient_aliases) }

\* ingredient_aliases[name]
AliasTarget(name) ==
  ingredient_aliases[CHOOSE n \in 1..Len(ingredient_aliases) :
                       ingredient_aliases[n][1] = name][2]

\* name.replace("_", " ")
UnderscoresToSpaces(name) ==
  [ i \in 1..Len(name) |-> IF name[i] = "_" THEN " " ELSE name[i] ] \o << >>

RECURSIVE ExtendNames(_)
\* the loop building extended_names
ExtendNames(names) ==
  IF names = << >> THEN << >>
  ELSE << Head(names), Append(Head(names), "s"), UnderscoresToSpaces(Head(names)) >>
         \o ExtendNames(Tail(names))

ingredient_corpus ==
  ExtendNames(nutrition_db_index
                \o [ n \in 1..Len(ingredient_aliases) |-> ingredient_aliases[n][1] ])

RECURSIVE TokensFrom(_, _, _)
\* the matches of the token pattern \b\w\w+\b from position i on: the
\* maximal runs of word characters that are at least two characters long
TokensFrom(s, i, cur) ==
  IF i > Len(s) THEN (IF Len(cur) >= 2 THEN << cur >> ELSE << >>)
  ELSE IF IsWordChar(s[i]) THEN TokensFrom(s, i + 1, Append(cur, s[i]))
  ELSE (IF Len(cur) >= 2 THEN << cur >> ELSE << >>) \o TokensFrom(s, i + 1, << >>)

\* the terms of a document for ngram_range=(1, 2): its tokens, then its
\* pairs of adjacent tokens
Terms(doc) ==
  LET tokens == TokensFrom(Lower(doc), 1, << >>)
  IN  tokens \o [ k \in 1..(Len(tokens) - 1) |->
                    tokens[k] \o << " " >> \o tokens[k + 1] ]

CorpusTerms == List([ d \in 1..Len(ingredient_corpus) |-> Terms(ingredient_corpus[d]) ])

\* vocabulary_ of the fitted vectorizer
Vocabulary == UNION { Range(CorpusTerms[d]) : d \in 1..Len(ingredient_corpus) }

\* number of documents holding each term
DocumentFrequency ==
  [ t \in Vocabulary |->
      Cardinality({ d \in 1..Len(ingredient_corpus) : t \in Range(CorpusTerms[d]) }) ]

\* 100 * idf for a term found in df documents of the 93 of the corpus
\* (smooth_idf): round(100 * (ln((1 + 93) / (1 + df)) + 1)), df = 1..4
IdfTable == << 485, 444, 416, 393 >>

\* 100 * (term count * idf) of term t in document d
Weight(d, t) ==
  Cardinality({ k \in 1..Len(CorpusTerms[d]) : CorpusTerms[d][k] = t })
    * IdfTable[DocumentFrequency[t]]

RECURSIVE SumSquares(_, _)
SumSquares(d, terms) ==
  IF terms = { } THEN 0
  ELSE LET t == CHOOSE x \in terms : TRUE
       IN  Weight(d, t) * Weight(d, t) + SumSquares(d, terms \ { t })

\* squared norm of the tf-idf vector of document d
NormSquared == List([ d \in 1..Len(ingredient_corpus) |-> SumSquares(d, Range(CorpusTerms[d])) ])

\* The cleaned name holds word characters only (clean_ingredient_name removes
\* every other character and turns whitespace into "_"), so the vectorizer
\* finds at most one token in it, the name itself, and the query vector is
\* the unit vector of that term, or zero when the term is not in the
\* vocabulary.  The cosine with document d is then the weight of the term in
\* the normalised vector of d.  SquaredSimilarity is 1000 * cosine^2.
SquaredSimilarity ==
  [ t \in Vocabulary |->
      List([ d \in 1..Len(ingredient_corpus) |->
               (Weight(d, t) * Weight(d, t) * 1000) \div NormSquared[d] ]) ]

\* cosine_similarity(query_vector, corpus_vectors)[0], as 1000 * cosine^2
Similarities(cleaned_name) ==
  IF Len(cleaned_name) >= 2 /\ cleaned_name \in Vocabulary
  THEN SquaredSimilarity[cleaned_name]
  ELSE List([ d \in 1..Len(ingredient_corpus) |-> 0 ])

\* np.argmax: the first position holding the greatest value
ArgMax(values) ==
  CHOOSE i \in 1..Len(values) :
    /\ \A j \in 1..Len(values) : values[j] <= values[i]
    /\ \A j \in 1..(i - 1) : values[j] < values[i]

\* integer square root
ISqrt(x) == CHOOSE r \in 0..x : r * r <= x /\ x < (r + 1) * (r + 1)

\* the cosine in hundredths from 1000 * cosine^2
Hundredths(squared) == ISqrt(squared * 10)

\* Lines 357-374: the fuzzy step
FuzzyMatch(cleaned_name) ==
  LET similarities == Similarities(cleaned_name)
      best_match_idx == ArgMax(similarities)
      best_similarity == similarities[best_match_idx]
      matched_name == ingredient_corpus[best_match_idx]
  IN  IF best_similarity > 90                             \* cosine > 0.3
      THEN IF matched_name \in nutrition_db_keys
           THEN [ key |-> Some(matched_name), confidence |-> Hundredths(best_similarity) ]
           ELSE IF matched_name \in alias_keys
           THEN [ key |-> Some(AliasTarget(matched_name)),
                  confidence |-> (Hundredths(best_similarity) * 9) \div 10 ]
           ELSE [ key |-> None, confidence |-> 0 ]
      ELSE [ key |-> None, confidence |-> 0 ]

\* find_matching_ingredient going from the direct match to the fuzzy step
find_matching_ingredient_NoAlias(ingredient_name) ==
  LET cleaned_name == clean_ingredient_name(ingredient_name)
  IN  IF cleaned_name \in nutrition_db_keys
      THEN [ key |-> Some(cleaned_name), confidence |-> 100 ]
      ELSE FuzzyMatch(cleaned_name)

\* find_matching_ingredient reporting an alias match as a direct one
find_matching_ingredient_AliasAsExact(ingredient_name) ==
  LET cleaned_name == clean_ingredient_name(ingredient_name)
  IN  IF cleaned_name \in nutrition_db_keys
      THEN [ key |-> Some(cleaned_name), confidence |-> 95 ]
      ELSE IF cleaned_name \in alias_keys
      THEN [ key |-> Some(AliasTarget(cleaned_name)), confidence |-> 100 ]
      ELSE FuzzyMatch(cleaned_name)

\* the pair (matched key or None, confidence in hundredths)
find_matching_ingredient(ingredient_name) ==
  LET cleaned_name == clean_ingredient_name(ingredient_name)
  IN  IF cleaned_name \in nutrition_db_keys
      THEN [ key |-> Some(cleaned_name), confidence |-> 100 ]
      ELSE IF cleaned_name \in alias_keys
      THEN [ key |-> Some(AliasTarget(cleaned_name)), confidence |-> 95 ]
      ELSE FuzzyMatch(cleaned_name)

----------------------------------------------------------------------------
(* Python floats.  A float is an IEEE 754 double, and every operation on    *)
(* floats gives the double nearest to the exact result, the one with the    *)
(* even mantissa when two are as near.  A double is                         *)
(* [ neg, m, e ]: the number m * 2^e, negated when neg holds, with m a      *)
(* natural number of exactly 53 bits, or 0 with e = 0.  A natural number is *)
(* the sequence of its digits in base Base, the least significant first.    *)

Base == 2 ^ 14

Max(a, b) == IF a >= b THEN a ELSE b

\* digit i of the natural number a
Limb(a, i) == IF i >= 1 /\ i <= Len(a) THEN a[i] ELSE 0

IsZero(a) == \A i \in 1..Len(a) : a[i] = 0

RECURSIVE Carried(_, _, _)
\* the digits of the number whose columns are cols from position i on,
\* carry being brought in; a negative column borrows from the next one
Carried(cols, i, carry) ==
  IF i > Len(cols)
  THEN (IF carry = 0 THEN << >>
        ELSE << carry % Base >> \o Carried(cols, i, carry \div Base))
  ELSE << (cols[i] + carry) % Base >>
         \o Carried(cols, i + 1, (cols[i] + carry) \div Base)

BigAdd(a, b) ==
  Carried([ i \in 1..Max(Len(a), Len(b)) |-> Limb(a, i) + Limb(b, i) ], 1, 0)

\* a - b for a >= b
BigSub(a, b) ==
  Carried([ i \in 1..Max(Len(a), Len(b)) |-> Limb(a, i) - Limb(b, i) ], 1, 0)

\* a < b
BigLess(a, b) ==
  \E i \in 1..Max(Len(a), Len(b)) :
    /\ Limb(a, i) < Limb(b, i)
    /\ \A j \in (i + 1)..Max(Len(a), Len(b)) : Limb(a, j) = Limb(b, j)

RECURSIVE ColumnSum(_, _, _, _)
\* the sum of the products a[j] * b[k + 1 - j] for j from i on
ColumnSum(a, b, k, i) ==
  IF i > Len(a) \/ i > k THEN 0
  ELSE a[i] * Limb(b, k + 1 - i) + ColumnSum(a, b, k, i + 1)

BigMul(a, b) ==
  Carried([ k \in 1..(Len(a) + Len(b) - 1) |-> ColumnSum(a, b, k, 1) ], 1, 0)

RECURSIVE DivFrom(_, _, _, _)
\* long division of the digits i down to 1 of a by n, rem being the
\* remainder of the digits above: the quotient q and the remainder r
DivFrom(a, n, i, rem) ==
  IF i = 0 THEN [ q |-> << >>, r |-> rem ]
  ELSE LET rest == DivFrom(a, n, i - 1, (rem * Base + a[i]) % n)
       IN  [ q |-> Append(rest.q, (rem * Base + a[i]) \div n), r |-> rest.r ]

\* a * 2^d
ShiftLeft(a, d) ==
  LET q == d \div 14
      r == d % 14
  IN  [ i \in 1..(Len(a) + q + 1) |->
          (Limb(a, i - q) % 2 ^ (14 - r)) * 2 ^ r
            + Limb(a, i - q - 1) \div 2 ^ (14 - r) ]

\* a \div 2^d
ShiftRight(a, d) ==
  LET q == d \div 14
      r == d % 14
  IN  [ i \in 1..Max(Len(a) - q, 0) |->
          Limb(a, i + q) \div 2 ^ r
            + (Limb(a, i + q + 1) % 2 ^ r) * 2 ^ (14 - r) ]

\* bit k of a, bit 0 being the least significant
BitAt(a, k) == (Limb(a, k \div 14 + 1) \div 2 ^ (k % 14)) % 2

\* a % 2^d = 0
LowBitsZero(a, d) ==
  /\ \A i \in 1..Len(a) : i <= d \div 14 => a[i] = 0
  /\ Limb(a, d \div 14 + 1) % 2 ^ (d % 14) = 0

\* the number of bits of a # 0
BitLength(a) ==
  LET top == CHOOSE i \in 1..Len(a) :
               a[i] # 0 /\ \A j \in (i + 1)..Len(a) : a[j] = 0
  IN  14 * (top - 1) + (CHOOSE n \in 1..14 : a[top] < 2 ^ n /\ a[top] >= 2 ^ (n - 1))

\* the four digits of a mantissa
Mantissa(a) == [ i \in 1..4 |-> Limb(a, i) ]

Zero == [ neg |-> FALSE, m |-> << 0, 0, 0, 0 >>, e |-> 0 ]

\* the double with mantissa r, which has 53 or, after a carry, 54 bits
Packed(neg, r, e) ==
  IF BitLength(r) = 54 THEN [ neg |-> neg, m |-> Mantissa(ShiftRight(r, 1)), e |-> e + 1 ]
  ELSE [ neg |-> neg, m |-> Mantissa(r), e |-> e ]

\* n * 2^e with its d > 0 lowest bits rounded away: up when they are more
\* than half of the last bit kept, or half of it and that bit is odd
RoundedBy(neg, n, e, inexact, d) ==
  IF /\ BitAt(n, d - 1) = 1
     /\ (inexact \/ ~LowBitsZero(n, d - 1) \/ BitAt(n, d) = 1)
  THEN Packed(neg, BigAdd(ShiftRight(n, d), << 1 >>), e + d)
  ELSE Packed(neg, ShiftRight(n, d), e + d)

\* the double nearest to the number n * 2^e, n # 0, or, when inexact holds,
\* to a number between n * 2^e and (n + 1) * 2^e
Rounded(neg, n, e, inexact) ==
  IF BitLength(n) <= 53
  THEN [ neg |-> neg, m |-> Mantissa(ShiftLeft(n, 53 - BitLength(n))),
         e |-> e - (53 - BitLength(n)) ]
  ELSE RoundedBy(neg, n, e, inexact, BitLength(n) - 53)

\* float(k) for an int k
FromInt(k) ==
  IF k = 0 THEN Zero
  ELSE LET a == IF k < 0 THEN -k ELSE k
       IN  Rounded(k < 0, << a % Base, (a \div Base) % Base, a \div (Base * Base) >>,
                   0, FALSE)

\* x * y
FloatMul(x, y) ==
  IF IsZero(x.m) \/ IsZero(y.m) THEN Zero
  ELSE Rounded(x.neg # y.neg, BigMul(x.m, y.m), x.e + y.e, FALSE)

\* the quotient and the remainder qr of x.m * 2^28 by n > 0, rounded
Quotient(neg, qr, e) == Rounded(neg, qr.q, e, qr.r # 0)

\* x / n for an int n # 0
FloatDiv(x, n) ==
  IF IsZero(x.m) THEN Zero
  ELSE Quotient(x.neg # (n < 0),
                DivFrom(<< 0, 0 >> \o x.m, IF n < 0 THEN -n ELSE n, 6, 0),
                x.e - 28)

\* the sum of a * 2^e, negated when aneg holds, and b * 2^e, negated when
\* bneg holds
SignedSum(aneg, a, bneg, b, e) ==
  IF aneg = bneg THEN Rounded(aneg, BigAdd(a, b), e, FALSE)
  ELSE IF BigLess(b, a) THEN Rounded(aneg, BigSub(a, b), e, FALSE)
  ELSE IF BigLess(a, b) THEN Rounded(bneg, BigSub(b, a), e, FALSE)
  ELSE Zero

\* x + y
FloatAdd(x, y) ==
  IF IsZero(x.m) THEN y
  ELSE IF IsZero(y.m) THEN x
  ELSE IF x.e - y.e > 64 THEN x
  ELSE IF y.e - x.e > 64 THEN y
  ELSE IF x.e >= y.e
       THEN SignedSum(x.neg, ShiftLeft(x.m, x.e - y.e), y.neg, y.m, y.e)
       ELSE SignedSum(x.neg, x.m, y.neg, ShiftLeft(y.m, y.e - x.e), x.e)

\* the float of the literal numerator / denominator
Literal(numerator, denominator) == FloatDiv(FromInt(numerator), denominator)

\* the int of a natural number below 2^31
ToInt(a) == Limb(a, 1) + Base * Limb(a, 2) + Base * Base * Limb(a, 3)

\* the magnitude of x = m * 2^(-d) rounded to a whole number, to the even
\* one when two are as near
RintBy(m, d) ==
  IF d > 54 THEN 0
  ELSE IF BitAt(m, d - 1) = 1 /\ (~LowBitsZero(m, d - 1) \/ BitAt(m, d) = 1)
       THEN ToInt(ShiftRight(m, d)) + 1
       ELSE ToInt(ShiftRight(m, d))

\* numpy.rint(x) as an int
Rint(x) ==
  IF IsZero(x.m) THEN 0
  ELSE LET whole == IF x.e >= 0 THEN ToInt(ShiftLeft(x.m, x.e)) ELSE RintBy(x.m, -x.e)
       IN  IF x.neg THEN -whole ELSE whole


----------------------------------------------------------------------------
(* convert_to_grams.  The floats the source writes are given by their       *)
(* thousandths: a density of 593 is the float 0.593.                        *)

\* default density, water (1.0 g/ml)
DefaultDensity == 1000

\* portion_sizes["default"], grams
DefaultPortion == 100

densities ==
  <<
     << <<"f","l","o","u","r">>, 593 >>,
     << <<"s","u","g","a","r">>, 845 >>,
     << <<"m","i","l","k">>, 1030 >>,
     << <<"w","a","t","e","r">>, 1000 >>,
     << <<"o","l","i","v","e","_","o","i","l">>, 920 >>,
     << <<"b","u","t","t","e","r">>, 911 >>,
     << <<"h","o","n","e","y">>, 1400 >>,
     << <<"r","i","c","e">>, 753 >>,
     << <<"o","a","t","s">>, 410 >>,
     << <<"s","a","l","t">>, 1217 >>
  >>

\* portion_sizes: (key, value), the value being a dict, given by its
\* "medium" entry (None when it has none), or an int
portion_sizes ==
  <<
     << <<"a","p","p","l","e">>, << "dict", Some(182) >> >>,
     << <<"b","a","n","a","n","a">>, << "dict", Some(118) >> >>,
     << <<"o","r","a","n","g","e">>, << "dict", Some(154) >> >>,
     << <<"t","o","m","a","t","o">>, << "dict", Some(123) >> >>,
     << <<"o","n","i","o","n">>, << "dict", Some(110) >> >>,
     << <<"c","a","r","r","o","t">>, << "dict", Some(61) >> >>,
     << <<"e","g","g">>, << "dict", Some(44) >> >>,
     << <<"c","h","i","c","k","e","n","_","b","r","e","a","s","t">>, << "dict", None >> >>,
     << <<"d","e","f","a","u","l","t">>, << "int", DefaultPortion >> >>
  >>

weight_g == { <<"g">>, <<"g","r","a","m">>, <<"g","r","a","m","s">> }

weight_kg == { <<"k","g">>, <<"k","i","l","o","g","r","a","m">>, <<"k","i","l","o","g","r","a","m","s">> }

weight_oz == { <<"o","z">>, <<"o","u","n","c","e">>, <<"o","u","n","c","e","s">> }

weight_lb == { <<"l","b">>, <<"p","o","u","n","d">>, <<"p","o","u","n","d","s">> }

volume_ml == { <<"m","l">>, <<"m","i","l","l","i","l","i","t","e","r">>, <<"m","i","l","l","i","l","i","t","e","r","s">> }

volume_l == { <<"l">>, <<"l","i","t","e","r">>, <<"l","i","t","e","r","s">> }

volume_cup == { <<"c","u","p">>, <<"c","u","p","s">> }

volume_tbsp == { <<"t","b","s","p">>, <<"t","a","b","l","e","s","p","o","o","n">>, <<"t","a","b","l","e","s","p","o","o","n","s">> }

volume_tsp == { <<"t","s","p">>, <<"t","e","a","s","p","o","o","n">>, <<"t","e","a","s","p","o","o","n","s">> }

count_units == { <<"p","i","e","c","e">>, <<"p","i","e","c","e","s">>, <<"w","h","o","l","e">>, <<"i","t","e","m">>, <<"i","t","e","m","s">> }



\* what a call returns that is left by an exception
Raised(error) == [ raised |-> error ]

\* self.densities.get(ingredient_name, 1.0), always water
Density_Water(ingredient_name) == Literal(DefaultDensity, 1000)

\* self.densities.get(ingredient_name, 1.0)
Density(ingredient_name) ==
  LET hits == { n \in 1..Len(densities) : densities[n][1] = ingredient_name }
  IN  IF hits = { } THEN Literal(DefaultDensity, 1000)
      ELSE Literal(densities[CHOOSE n \in hits : TRUE][2], 1000)

\* portion_sizes.get(name, {"medium": default}).get("medium", default);
\* None when the value found is the int, which has no get
MediumPortion(ingredient_name) ==
  LET hits == { n \in 1..Len(portion_sizes) : portion_sizes[n][1] = ingredient_name }
  IN  IF hits = { } THEN Some(DefaultPortion)
      ELSE LET portion_data == portion_sizes[CHOOSE n \in hits : TRUE][2]
           IN  IF portion_data[1] = "int" THEN None
               ELSE IF portion_data[2] = None THEN Some(DefaultPortion)
               ELSE portion_data[2]

\* the branch of the count units
Pieces(amount, medium) ==
  IF medium = None THEN Raised("AttributeError") ELSE FromInt(amount * medium[1])

\* InGrams taking an unknown unit for a count unit
InGrams_UnknownAsCount(amount, unit, ingredient_name) ==
  IF unit \in weight_g THEN FromInt(amount)
  ELSE IF unit \in weight_kg THEN FromInt(amount * 1000)
  ELSE IF unit \in weight_oz THEN FloatMul(FromInt(amount), Literal(28350, 1000))
  ELSE IF unit \in weight_lb THEN FloatMul(FromInt(amount), Literal(453592, 1000))
  ELSE IF unit \in volume_ml THEN FloatMul(FromInt(amount), Density(ingredient_name))
  ELSE IF unit \in volume_l THEN FloatMul(FromInt(amount * 1000), Density(ingredient_name))
  ELSE IF unit \in volume_cup
       THEN FloatMul(FloatMul(FromInt(amount), Literal(236588, 1000)), Density(ingredient_name))
  ELSE IF unit \in volume_tbsp
       THEN FloatMul(FloatMul(FromInt(amount), Literal(14787, 1000)), Density(ingredient_name))
  ELSE IF unit \in volume_tsp
       THEN FloatMul(FloatMul(FromInt(amount), Literal(4929, 1000)), Density(ingredient_name))
  ELSE Pieces(amount, MediumPortion(ingredient_name))

\* the if/elif chain on the normalised unit, for an int amount: the grams as
\* a float (an int returned is given as the float it is divided as)
InGrams(amount, unit, ingredient_name) ==
  IF unit \in weight_g THEN FromInt(amount)
  ELSE IF unit \in weight_kg THEN FromInt(amount * 1000)
  ELSE IF unit \in weight_oz THEN FloatMul(FromInt(amount), Literal(28350, 1000))
  ELSE IF unit \in weight_lb THEN FloatMul(FromInt(amount), Literal(453592, 1000))
  ELSE IF unit \in volume_ml THEN FloatMul(FromInt(amount), Density(ingredient_name))
  ELSE IF unit \in volume_l THEN FloatMul(FromInt(amount * 1000), Density(ingredient_name))
  ELSE IF unit \in volume_cup
       THEN FloatMul(FloatMul(FromInt(amount), Literal(236588, 1000)), Density(ingredient_name))
  ELSE IF unit \in volume_tbsp
       THEN FloatMul(FloatMul(FromInt(amount), Literal(14787, 1000)), Density(ingredient_name))
  ELSE IF unit \in volume_tsp
       THEN FloatMul(FloatMul(FromInt(amount), Literal(4929, 1000)), Density(ingredient_name))
  ELSE IF unit \in count_units THEN Pieces(amount, MediumPortion(ingredient_name))
  ELSE FromInt(amount)                                     \* unknown: grams

convert_to_grams(amount, unit, ingredient_name) ==
  InGrams(amount, Strip(Lower(unit)), ingredient_name)

----------------------------------------------------------------------------
(* calculate_nutrition.  The nutrients of the result are numbers of         *)
(* hundredths: round(value, 2) gives the float nearest to such a number.    *)

\* nutrition_data, in the order of nutrition_db_index: the columns of the
\* nutrients that calculate_nutrition reports, in hundredths per 100 g
nutrition_data ==
  <<
     [ calories_per_100g |-> 5200, protein |-> 26, carbs |-> 1381, fat |-> 17, fiber |-> 240, sugar |-> 1039, sodium |-> 100 ],   \* apple
     [ calories_per_100g |-> 8900, protein |-> 109, carbs |-> 2284, fat |-> 33, fiber |-> 260, sugar |-> 1223, sodium |-> 100 ],   \* banana
     [ calories_per_100g |-> 4700, protein |-> 94, carbs |-> 1175, fat |-> 12, fiber |-> 240, sugar |-> 935, sodium |-> 0 ],   \* orange
     [ calories_per_100g |-> 1800, protein |-> 88, carbs |-> 389, fat |-> 20, fiber |-> 120, sugar |-> 263, sodium |-> 500 ],   \* tomato
     [ calories_per_100g |-> 4000, protein |-> 110, carbs |-> 934, fat |-> 10, fiber |-> 170, sugar |-> 424, sodium |-> 400 ],   \* onion
     [ calories_per_100g |-> 4100, protein |-> 93, carbs |-> 958, fat |-> 24, fiber |-> 280, sugar |-> 474, sodium |-> 6900 ],   \* carrot
     [ calories_per_100g |-> 3400, protein |-> 282, carbs |-> 664, fat |-> 37, fiber |-> 260, sugar |-> 155, sodium |-> 3300 ],   \* broccoli
     [ calories_per_100g |-> 2300, protein |-> 286, carbs |-> 363, fat |-> 39, fiber |-> 220, sugar |-> 42, sodium |-> 7900 ],   \* spinach
     [ calories_per_100g |-> 16500, protein |-> 3100, carbs |-> 0, fat |-> 360, fiber |-> 0, sugar |-> 0, sodium |-> 7400 ],   \* chicken_breast
     [ calories_per_100g |-> 25000, protein |-> 2600, carbs |-> 0, fat |-> 1500, fiber |-> 0, sugar |-> 0, sodium |-> 7200 ],   \* beef_lean
     [ calories_per_100g |-> 20800, protein |-> 2200, carbs |-> 0, fat |-> 1200, fiber |-> 0, sugar |-> 0, sodium |-> 8900 ],   \* salmon
     [ calories_per_100g |-> 15500, protein |-> 1300, carbs |-> 110, fat |-> 1100, fiber |-> 0, sugar |-> 110, sodium |-> 12400 ],   \* eggs
     [ calories_per_100g |-> 13000, protein |-> 270, carbs |-> 2800, fat |-> 30, fiber |-> 40, sugar |-> 10, sodium |-> 100 ],   \* rice_white
     [ calories_per_100g |-> 13100, protein |-> 500, carbs |-> 2500, fat |-> 110, fiber |-> 180, sugar |-> 80, sodium |-> 100 ],   \* pasta
     [ calories_per_100g |-> 26500, protein |-> 900, carbs |-> 4900, fat |-> 320, fiber |-> 270, sugar |-> 500, sodium |-> 47700 ],   \* bread_white
     [ calories_per_100g |-> 36400, protein |-> 1000, carbs |-> 7600, fat |-> 100, fiber |-> 270, sugar |-> 30, sodium |-> 200 ],   \* flour
     [ calories_per_100g |-> 6100, protein |-> 320, carbs |-> 480, fat |-> 330, fiber |-> 0, sugar |-> 510, sodium |-> 4000 ],   \* milk_whole
     [ calories_per_100g |-> 40300, protein |-> 2500, carbs |-> 130, fat |-> 3300, fiber |-> 0, sugar |-> 50, sodium |-> 62100 ],   \* cheese_cheddar
     [ calories_per_100g |-> 71700, protein |-> 85, carbs |-> 6, fat |-> 8100, fiber |-> 0, sugar |-> 6, sodium |-> 1100 ],   \* butter
     [ calories_per_100g |-> 88400, protein |-> 0, carbs |-> 0, fat |-> 10000, fiber |-> 0, sugar |-> 0, sodium |-> 200 ],   \* olive_oil
     [ calories_per_100g |-> 0, protein |-> 0, carbs |-> 0, fat |-> 0, fiber |-> 0, sugar |-> 0, sodium |-> 3875800 ],   \* salt
     [ calories_per_100g |-> 25100, protein |-> 1039, carbs |-> 6395, fat |-> 326, fiber |-> 2530, sugar |-> 64, sodium |-> 2000 ]   \* black_pepper
  >>

\* the labels of a row of nutrition_db
RowLabels ==
  { "calories_per_100g", "protein", "carbs", "fat", "fiber", "sugar", "sodium" }

\* the keys of total_nutrition that appear in the result
Nutrients == { "calories", "protein", "carbs", "fat", "fiber", "sugar", "sodium" }

\* the position of a key in nutrition_db_index
RowIndex(key) == CHOOSE n \in 1..Len(nutrition_db_index) : nutrition_db_index[n] = key

\* the floats of a row of nutrition_data
FloatRow(row) ==
  [ calories_per_100g |-> Literal(row.calories_per_100g, 100),
    protein |-> Literal(row.protein, 100),
    carbs |-> Literal(row.carbs, 100),
    fat |-> Literal(row.fat, 100),
    fiber |-> Literal(row.fiber, 100),
    sugar |-> Literal(row.sugar, 100),
    sodium |-> Literal(row.sodium, 100) ]

\* self.nutrition_db, a DataFrame of floats
nutrition_db == List([ n \in 1..Len(nutrition_data) |-> FloatRow(nutrition_data[n]) ])

\* self.nutrition_db.loc[matched_ingredient]
NutritionRow(key) == nutrition_db[RowIndex(key)]

\* round(value / servings, 2) in hundredths, servings # 0.  The value is a
\* numpy float once a product has been added to it, and numpy rounds by
\* rint(x * 100.0) / 100.0; the float 0.0 that nothing was added to is
\* rounded to 0.0.
PerServing(value, servings) ==
  Rint(FloatMul(FloatDiv(value, servings), FromInt(100)))

\* A field of an ingredient: the key is absent from the dict, present with
\* the value None, or present with a value
Absent == << "absent" >>
Null == << "null" >>
Value(v) == << "value", v >>

\* dict.get(key, default)
DictGet(field, default) == IF field = Absent THEN Value(default) ELSE field

\* the state of the variables of calculate_nutrition before the loop
LoopStart ==
  [ total_nutrition |-> [ nutrient \in Nutrients |-> Zero ],
    missing_ingredients |-> << >>,
    total_confidence |-> 0,
    processed_count |-> 0,
    raised |-> FALSE ]

\* the "for nutrient in total_nutrition.keys()" loop on a matched ingredient
AddNutrition(total_nutrition, nutrition_data_row, scale_factor) ==
  [ nutrient \in Nutrients |->
      IF nutrient \in RowLabels
      THEN FloatAdd(total_nutrition[nutrient],
                    FloatMul(nutrition_data_row[nutrient], scale_factor))
      ELSE total_nutrition[nutrient] ]

\* lines 287-300: the matched ingredient is converted and accumulated; an
\* exception of convert_to_grams leaves the loop
Accumulate(acc, match, amount_in_grams) ==
  IF amount_in_grams = Raised("AttributeError") THEN [ acc EXCEPT !.raised = TRUE ]
  ELSE [ acc EXCEPT
           !.total_nutrition =
             AddNutrition(@, NutritionRow(match.key[1]), FloatDiv(amount_in_grams, 100)),
           !.total_confidence = @ + match.confidence,
           !.processed_count = @ + 1 ]

\* lines 285-302 for the result match of find_matching_ingredient; a null
\* amount raises where it is multiplied or divided
ProcessMatch(acc, ingredient_name, amount, unit, match) ==
  IF match.key = None
  THEN [ acc EXCEPT !.missing_ingredients = Append(@, ingredient_name) ]
  ELSE IF amount = Null THEN [ acc EXCEPT !.raised = TRUE ]
  ELSE Accumulate(acc, match,
                  convert_to_grams(amount[2], Lower(unit[2]), match.key[1]))

\* lines 278-283 on a dict: a null unit raises at .lower()
ProcessDict(acc, ingredient_name, amount, unit) ==
  IF unit = Null THEN [ acc EXCEPT !.raised = TRUE ]
  ELSE ProcessMatch(acc, ingredient_name, amount, unit,
                    find_matching_ingredient(ingredient_name))

\* one iteration that reads the fields of an IngredientInput object as if
\* they were the keys of a dict
ProcessIngredient_FieldsAsKeys(acc, ingredient) ==
  ProcessDict(acc, Strip(Lower(ingredient.name)),
              DictGet(ingredient.amount, 100), DictGet(ingredient.unit, << "g" >>))

\* One iteration of the loop.  raised: an exception left the loop for the
\* except branch; ingredient.get raises on an object that is no dict.
ProcessIngredient(acc, ingredient) ==
  IF ingredient.kind # "dict" THEN [ acc EXCEPT !.raised = TRUE ]
  ELSE ProcessDict(acc, Strip(Lower(ingredient.name)),
                   DictGet(ingredient.amount, 100),
                   DictGet(ingredient.unit, << "g" >>))

\* the loop over the ingredients, left at the first exception
RECURSIVE ProcessIngredients(_, _, _)
ProcessIngredients(acc, ingredients, i) ==
  IF acc.raised \/ i > Len(ingredients) THEN acc
  ELSE ProcessIngredients(ProcessIngredient(acc, ingredients[i]), ingredients, i + 1)

\* the dict returned by the except branch
ErrorResult ==
  [ nutrition |-> [ nutrient \in Nutrients |-> 0 ],
    confidence |-> [ num |-> 0, den |-> 1 ],
    missing_ingredients |-> << >> ]

\* ResultOf returning what the loop had accumulated when an iteration raised
ResultOf_KeepPartial(acc, servings) ==
  IF servings = 0 THEN ErrorResult
  ELSE [ nutrition |->
           [ nutrient \in Nutrients |->
               PerServing(acc.total_nutrition[nutrient], servings) ],
         confidence |->
           IF acc.processed_count > 0
           THEN [ num |-> acc.total_confidence, den |-> acc.processed_count ]
           ELSE [ num |-> 0, den |-> 1 ],
         missing_ingredients |-> acc.missing_ingredients ]

\* Lines 304-336 on the variables acc the loop left: the division by
\* servings = 0 raises
ResultOf(acc, servings) ==
  IF acc.raised \/ servings = 0 THEN ErrorResult
  ELSE [ nutrition |->
           [ nutrient \in Nutrients |->
               PerServing(acc.total_nutrition[nutrient], servings) ],
         confidence |->
           IF acc.processed_count > 0
           THEN [ num |-> acc.total_confidence, den |-> acc.processed_count ]
           ELSE [ num |-> 0, den |-> 1 ],
         missing_ingredients |-> acc.missing_ingredients ]

\* The dict returned: nutrition in hundredths per serving, confidence as the
\* fraction num / (100 * den), missing_ingredients.
calculate_nutrition(ingredients, servings) ==
  ResultOf(ProcessIngredients(LoopStart, ingredients, 1), servings)

\* request.servings or 1
ServingsOrOne(servings) ==
  IF servings = None \/ servings = Some(0) THEN 1 ELSE servings[1]

\* NutritionAnalysisResponse(**nutrition): confidence must be within [0, 1],
\* else the endpoint answers 500
Respond(servings, nutrition) ==
  IF /\ nutrition.confidence.num >= 0
     /\ nutrition.confidence.num <= 100 * nutrition.confidence.den
  THEN [ servings |-> servings, status |-> 200, response |-> Some(nutrition) ]
  ELSE [ servings |-> servings, status |-> 500, response |-> None ]

\* The analyze-nutrition endpoint: the servings passed to calculate_nutrition,
\* the status and the response body
analyze_nutrition(body) ==
  Respond(ServingsOrOne(body.servings),
          calculate_nutrition(body.ingredients, ServingsOrOne(body.servings)))

----------------------------------------------------------------------------
(* Calls of the nutrition analyzer                                         *)

\* the keys of the density table and of the portion table ("default" is
\* the fallback entry of the portion table, not an ingredient)
density_keys == { densities[n][1] : n \in 1..Len(densities) }

portion_keys ==
  { portion_sizes[n][1] :
      n \in { k \in 1..Len(portion_sizes) : portion_sizes[k][2][1] = "dict" } }

\* the keys of the four tables, given as ingredient names
TableKeyNames == nutrition_db_keys \cup alias_keys \cup density_keys \cup portion_keys

\* names that start with a quantity
QuantifiedNames ==
  { <<"2"," ","c","u","p","s">>,
    <<"5","0","0"," ","g">>,
    <<"3"," ","g","a","r","l","i","c"," ","c","l","o","v","e","s">>,
    <<"2"," ","l","e","m","o","n","s">>,
    <<"2"," ","l"," ","m","i","l","k">> }

IngredientNames ==
  {
    <<"o","l","i","v","e","\t","o","i","l">>,
    <<"2","\t","c","u","p","s"," ","f","l","o","u","r">>,
    <<"e","g","g","\n","w","h","i","t","e">>,
    <<"J","A","L","A","P","E","Ñ","O">>,
    <<"C","r","è","m","e"," ","F","r","a","î","c","h","e">>,
    <<"a","p","p","l","e","s">>,
    <<"b","r","e","a","s","t">>,
    <<"c","h","i","c","k","e","n">>,
    <<"F","r","e","s","h"," ","T","o","m","a","t","o">>,
    <<"2"," ","c","u","p","s"," ","f","l","o","u","r">>,
    <<"2"," ","l","a","r","g","e"," ","e","g","g","s">>,
    <<"s","t","r","a","w","b","e","r","r","y">>,
    <<"o","i","l">>,
    <<>>,
    <<"a">>,
    <<"c","h","i","c","k","e","n"," ","b","r","e","a","s","t">>,
    <<" ","E","g","g","s"," ">>,
    <<"w","h","i","t","e"," ","r","i","c","e">>,
    <<"w","h","o","l","e"," ","m","i","l","k">>,
    <<"g","r","o","u","n","d"," ","b","e","e","f">>,
    <<"u","n","s","a","l","t","e","d"," ","b","u","t","t","e","r">>,
    <<"s","u","g","a","r">>,
    <<"e","x","t","r","a"," ","v","i","r","g","i","n"," ","o","l","i","v","e"," ","o","i","l">>,
    <<"5","0","0"," ","g"," ","p","a","s","t","a">>,
    <<"c","h","e","d","d","a","r">>,
    <<"m","i","l","k","_","w","h","o","l","e">>,
    <<"1"," ","b","a","n","a","n","a",","," ","s","l","i","c","e","d">>,
    <<"f","r","e","e","-","r","a","n","g","e"," ","e","g","g">>,
    <<"r","i","c","e","s">>,
    <<"w","h","i","t","e">>,
    <<"f","i","s","h">>,
    <<"O","l","i","v","e"," ","O","i","l","!">>,
    <<"b","l","a","c","k"," ","p","e","p","p","e","r">>,
    <<"3"," ","k","g"," ","r","i","c","e">>,
    <<"t","o","f","u">>
  } \cup TableKeyNames \cup QuantifiedNames

OtherUnits ==
  { <<" ","C","u","p"," ">>, <<"K","G">>, <<"p","i","n","c","h">>, <<>>, <<"c","l","o","v","e">>, <<"G">>, <<"T","b","s","p"," ">>,
    <<"\t","c","u","p","\n">> }

RecognizedUnits ==
  weight_g \cup weight_kg \cup weight_oz \cup weight_lb \cup volume_ml
    \cup volume_l \cup volume_cup \cup volume_tbsp \cup volume_tsp \cup count_units

Units == RecognizedUnits \cup OtherUnits

\* greatest of the small amounts of an ingredient
MaxAmount == 2

Amounts == (-1)..MaxAmount \cup { 250 }

\* the ingredient names convert_to_grams is called with: keys of the
\* nutrition database with and without a density or a portion entry, and
\* the key of the portion table that holds no dict
ConvertedIngredients ==
  { <<"f","l","o","u","r">>, <<"o","l","i","v","e","_","o","i","l">>,
    <<"s","a","l","t">>, <<"a","p","p","l","e">>, <<"c","a","r","r","o","t">>,
    <<"c","h","i","c","k","e","n","_","b","r","e","a","s","t">>,
    <<"s","p","i","n","a","c","h">>, <<"d","e","f","a","u","l","t">> }

\* greatest number of ingredients of a recipe
MaxIngredients == 2

\* ingredient dicts, as the signature of calculate_nutrition describes them
IngredientDicts ==
  { [ kind |-> "dict", name |-> <<"t","o","m","a","t","o">>,
      amount |-> Value(200), unit |-> Value(<<"g">>) ],
    [ kind |-> "dict", name |-> <<"C","h","i","c","k","e","n">>,
      amount |-> Value(1), unit |-> Value(<<"K","G">>) ],
    [ kind |-> "dict", name |-> <<"f","l","o","u","r">>,
      amount |-> Value(2), unit |-> Value(<<"c","u","p">>) ],
    [ kind |-> "dict", name |-> <<"u","n","o","b","t","a","i","n","i","u","m">>,
      amount |-> Value(100), unit |-> Value(<<"g">>) ],
    [ kind |-> "dict", name |-> <<"f","r","e","s","h"," ","t","o","m","a","t","o">>,
      amount |-> Absent, unit |-> Absent ],
    [ kind |-> "dict", name |-> <<"s","a","l","t">>,
      amount |-> Null, unit |-> Value(<<"g">>) ],
    [ kind |-> "dict", name |-> <<"a","p","p","l","e">>,
      amount |-> Value(1), unit |-> Null ],
    [ kind |-> "dict", name |-> <<"s","p","i","n","a","c","h">>,
      amount |-> Value(-50), unit |-> Value(<<"g">>) ],
    [ kind |-> "dict", name |-> <<"u","n","o","b","t","a","i","n","i","u","m">>,
      amount |-> Null, unit |-> Value(<<"g">>) ],
    [ kind |-> "dict", name |-> <<"m","i","l","k">>,
      amount |-> Value(1), unit |-> Value(<<"c","u","p">>) ],
    [ kind |-> "dict", name |-> <<"e","g","g">>,
      amount |-> Value(2), unit |-> Value(<<"p","i","e","c","e">>) ] }

\* IngredientInput objects, as the request schema builds them: amount and
\* unit are None when the request leaves them out
IngredientInputs ==
  { [ kind |-> "IngredientInput", name |-> <<"t","o","m","a","t","o">>,
      amount |-> Value(200), unit |-> Value(<<"g">>) ],
    [ kind |-> "IngredientInput", name |-> <<"t","o","m","a","t","o">>,
      amount |-> Value(-200), unit |-> Value(<<"g">>) ],
    [ kind |-> "IngredientInput", name |-> <<"u","n","o","b","t","a","i","n","i","u","m">>,
      amount |-> Null, unit |-> Null ] }

\* the lists of at most MaxIngredients elements of pool
IngredientLists(pool) == UNION { [ 1..n -> pool ] : n \in 0..MaxIngredients }

ServingsValues == { -2, 0, 1, 2, 3 }

\* RecipeAnalysisRequest.servings: Optional[int], no bound
RequestServings == { None } \cup { Some(n) : n \in ServingsValues }

\* the calls made on the analyzer, before they are executed
PendingCalls ==
  { [ op |-> "find_matching_ingredient", ingredient_name |-> n,
      done |-> FALSE ] : n \in IngredientNames }
  \cup
  { [ op |-> "convert_to_grams", amount |-> a, unit |-> u, ingredient_name |-> n,
      done |-> FALSE ] : a \in Amounts, u \in Units, n \in ConvertedIngredients }
  \cup
  { [ op |-> "calculate_nutrition", ingredients |-> l, servings |-> n,
      done |-> FALSE ] : l \in IngredientLists(IngredientDicts), n \in ServingsValues }
  \cup
  { [ op |-> "analyze_nutrition",
      body |-> [ ingredients |-> l, servings |-> n ],
      done |-> FALSE ] : l \in IngredientLists(IngredientInputs), n \in RequestServings }

\* The analyzer is loaded at startup, when no recommender exists yet (the
\* recommender is created by the first request that needs it); one call on
\* the analyzer is about to be made.
InitNutrition ==
  /\ recipe_database = None
  /\ recipe_embeddings = None
  /\ sentence_model = "broken"
  /\ argsort_ties = "kept"
  /\ request = None
  /\ response = << >>
  /\ NoCalls
  /\ nutrition_call \in { Some(c) : c \in PendingCalls }
  /\ meal_plan_call = None
  /\ NoAnalysis
  /\ NotStarted

FindMatchingIngredient ==
  /\ nutrition_call # None
  /\ ~nutrition_call[1].done
  /\ nutrition_call[1].op = "find_matching_ingredient"
  /\ nutrition_call' =
       Some([ op |-> "find_matching_ingredient",
              ingredient_name |-> nutrition_call[1].ingredient_name,
              done |-> TRUE,
              result |-> find_matching_ingredient(nutrition_call[1].ingredient_name) ])
  /\ UNCHANGED << rank_vars, conc_vars, plan_vars,
                  analysis_vars, service_vars >>

ConvertToGrams ==
  /\ nutrition_call # None
  /\ ~nutrition_call[1].done
  /\ nutrition_call[1].op = "convert_to_grams"
  /\ nutrition_call' =
       Some([ op |-> "convert_to_grams",
              amount |-> nutrition_call[1].amount,
              unit |-> nutrition_call[1].unit,
              ingredient_name |-> nutrition_call[1].ingredient_name,
              done |-> TRUE,
              result |-> convert_to_grams(nutrition_call[1].amount,
                                          nutrition_call[1].unit,
                                          nutrition_call[1].ingredient_name) ])
  /\ UNCHANGED << rank_vars, conc_vars, plan_vars,
                  analysis_vars, service_vars >>

\* calculate_nutrition called with a list of dicts
CalculateNutrition ==
  /\ nutrition_call # None
  /\ ~nutrition_call[1].done
  /\ nutrition_call[1].op = "calculate_nutrition"
  /\ nutrition_call' =
       Some([ op |-> "calculate_nutrition",
              ingredients |-> nutrition_call[1].ingredients,
              servings |-> nutrition_call[1].servings,
              done |-> TRUE,
              result |-> calculate_nutrition(nutrition_call[1].ingredients,
                                             nutrition_call[1].servings) ])
  /\ UNCHANGED << rank_vars, conc_vars, plan_vars,
                  analysis_vars, service_vars >>

\* POST /analyze-nutrition
AnalyzeNutrition ==
  /\ nutrition_call # None
  /\ ~nutrition_call[1].done
  /\ nutrition_call[1].op = "analyze_nutrition"
  /\ nutrition_call' =
       Some([ op |-> "analyze_nutrition",
              body |-> nutrition_call[1].body,
              done |-> TRUE,
              result |-> analyze_nutrition(nutrition_call[1].body) ])
  /\ UNCHANGED << rank_vars, conc_vars, plan_vars,
                  analysis_vars, service_vars >>

NextNutrition ==
  \/ FindMatchingIngredient
  \/ ConvertToGrams
  \/ CalculateNutrition
  \/ AnalyzeNutrition

SpecNutrition == InitNutrition /\ [][NextNutrition]_vars

----------------------------------------------------------------------------
(* Exact arithmetic, which the results in floats are compared with.  A mass *)
(* is the pair of its whole grams g and its millionths ug, 0 <= ug <        *)
(* Million; a multiplier is a number of millionths of a gram per unit of    *)
(* amount; a nutrient value is a number of hundredths, and a sum of scaled  *)
(* values is the pair of its whole hundredths c and the rest r in units of  *)
(* 1/CentFraction of a hundredth, 0 <= r < CentFraction.                    *)

Million == 10 ^ 6

\* amount * multiplier / Million, exactly, without leaving 32 bits
Scale(amount, multiplier) ==
  LET hi == multiplier \div Million
      lo == multiplier % Million
  IN  [ g |-> amount * hi + (amount * lo) \div Million,
        ug |-> (amount * lo) % Million ]

\* the mass of n millionths of a gram, negated when neg holds
MicroPair(neg, thousands, units) ==
  LET rest == DivFrom(thousands.q, 1000, Len(thousands.q), 0)
      g == ToInt(rest.q)
      ug == rest.r * 1000 + units
  IN  IF ~neg THEN [ g |-> g, ug |-> ug ]
      ELSE IF ug = 0 THEN [ g |-> -g, ug |-> 0 ]
      ELSE [ g |-> -g - 1, ug |-> Million - ug ]

\* n \div 2^d, rounded to the nearest
RoundShift(n, d) ==
  IF d <= 0 THEN ShiftLeft(n, -d)
  ELSE IF BitAt(n, d - 1) = 1 THEN BigAdd(ShiftRight(n, d), << 1 >>)
  ELSE ShiftRight(n, d)

\* the mass nearest to the float x
InMillionths(neg, n) == MicroPair(neg, DivFrom(n, 1000, Len(n), 0), DivFrom(n, 1000, Len(n), 0).r)

Micrograms(x) ==
  IF IsZero(x.m) THEN [ g |-> 0, ug |-> 0 ]
  ELSE InMillionths(x.neg,
                    RoundShift(BigMul(x.m, << Million % Base, Million \div Base >>), -x.e))

CentFraction == 10 ^ 8

QZero == [ c |-> 0, r |-> 0 ]

QNormal(c, r) == [ c |-> c + r \div CentFraction, r |-> r % CentFraction ]

QAdd(a, b) == QNormal(a.c + b.c, a.r + b.r)

\* value * grams / 100: value is in hundredths and grams is the pair
\* (g, ug); the products are split so that every intermediate stays within
\* 32 bits
ScaleNutrient(value, grams) ==
  LET vh == value \div 100
      vl == value % 100
      vk == value \div 1000
      vd == value % 1000
      a == grams.ug \div 1000
      b == grams.ug % 1000
      mid == vk * b + vd * a
  IN  QNormal(vh * grams.g + (vl * grams.g) \div 100
                + (vk * a) \div 100 + mid \div 100000,
              ((vl * grams.g) % 100) * 1000000
                + ((vk * a) % 100) * 1000000 + (mid % 100000) * 1000 + vd * b)

\* k hundredths is q / n, n > 0, rounded to 2 decimals: a number of
\* hundredths nearest to it
IsRounded(k, q, n) ==
  LET quot == q.c \div n
      rest == (q.c % n) * CentFraction + q.r
  IN  IF 2 * rest < n * CentFraction THEN k = quot
      ELSE IF 2 * rest > n * CentFraction THEN k = quot + 1
      ELSE k \in { quot, quot + 1 }

----------------------------------------------------------------------------
(* Properties of find_matching_ingredient and convert_to_grams             *)

Matched(c) == c # None /\ c[1].done /\ c[1].op = "find_matching_ingredient"

Converted(c) == c # None /\ c[1].done /\ c[1].op = "convert_to_grams"

\* C7: the normalised name is resolved by first hit: a database key gives
\* (that key, 1.0); otherwise an alias key gives (its target, 0.95);
\* otherwise the result is that of the fuzzy step, which is a database key
\* with a positive confidence or (None, 0.0).
C7_FirstHitWins ==
  Matched(nutrition_call) =>
    LET name == clean_ingredient_name(nutrition_call[1].ingredient_name)
        result == nutrition_call[1].result
    IN  /\ name \in nutrition_db_keys =>
             result = [ key |-> Some(name), confidence |-> 100 ]
        /\ (name \notin nutrition_db_keys /\ name \in alias_keys) =>
             result = [ key |-> Some(AliasTarget(name)), confidence |-> 95 ]
        /\ (name \notin nutrition_db_keys /\ name \notin alias_keys) =>
             /\ result = FuzzyMatch(name)
             /\ \/ result = [ key |-> None, confidence |-> 0 ]
                \/ /\ result.key # None
                   /\ result.key[1] \in nutrition_db_keys
                   /\ result.confidence > 0

\* C7 witness: a name that is an alias key once cleaned, given with a
\* descriptive word
C7_Witness ==
  /\ Matched(nutrition_call)
  /\ clean_ingredient_name(nutrition_call[1].ingredient_name) \in alias_keys
  /\ clean_ingredient_name(nutrition_call[1].ingredient_name)
       # nutrition_call[1].ingredient_name

\* C8: the confidence follows the ladder: 1.0 for a direct match, 0.95 for
\* an alias match, and for a match accepted by the fuzzy step a similarity
\* above 0.3 and a confidence of at most 0.95, at most 0.9 when the matched
\* corpus entry is an alias key.
C8_ConfidenceLadder ==
  Matched(nutrition_call) =>
    LET name == clean_ingredient_name(nutrition_call[1].ingredient_name)
        result == nutrition_call[1].result
        similarities == Similarities(name)
        best == ArgMax(similarities)
    IN  /\ result.confidence \in 0..100
        /\ name \in nutrition_db_keys => result.confidence = 100
        /\ (name \notin nutrition_db_keys /\ name \in alias_keys) =>
             result.confidence = 95
        /\ (name \notin nutrition_db_keys /\ name \notin alias_keys
              /\ result.key # None) =>
             /\ similarities[best] > 90
             /\ result.confidence <= 95
             /\ ingredient_corpus[best] \in alias_keys => result.confidence <= 90
        /\ result.key = None => result.confidence = 0

\* C8 witness: the fuzzy step ran with a best similarity above 0.3
C8_Witness ==
  /\ Matched(nutrition_call)
  /\ LET name == clean_ingredient_name(nutrition_call[1].ingredient_name)
     IN  /\ name \notin nutrition_db_keys
         /\ name \notin alias_keys
         /\ Similarities(name)[ArgMax(Similarities(name))] > 90

\* the canonical unit names of the three tiers and their multipliers, in
\* millionths: grams per unit for a weight, millilitres per unit for a volume
WeightTable ==
  << << <<"g">>, 1000000 >>, << <<"k","g">>, 1000000000 >>,
     << <<"o","z">>, 28350000 >>, << <<"l","b">>, 453592000 >> >>

VolumeTable ==
  << << <<"m","l">>, 1000000 >>, << <<"l">>, 1000000000 >>,
     << <<"c","u","p">>, 236588000 >>, << <<"t","b","s","p">>, 14787000 >>,
     << <<"t","s","p">>, 4929000 >> >>

CountNames == { <<"p","i","e","c","e">>, <<"w","h","o","l","e">>, <<"i","t","e","m">> }

InTable(table, unit) == \E n \in 1..Len(table) : table[n][1] = unit

TableValue(table, unit) == table[CHOOSE n \in 1..Len(table) : table[n][1] = unit][2]

\* C9: for a key of the nutrition database, a weight unit gives amount *
\* factor whatever the ingredient; a volume unit gives amount * millilitres *
\* density, density 1.0 when the key is not in the density table; a count
\* unit gives amount * medium portion, 100 g when the ingredient or its
\* medium entry is absent.  The float returned is compared to the millionth
\* of a gram.
C9_ThreeTierConversion ==
  Converted(nutrition_call) =>
    LET c == nutrition_call[1]
        unit == Strip(Lower(c.unit))
        density == IF \E n \in 1..Len(densities) : densities[n][1] = c.ingredient_name
                   THEN densities[CHOOSE n \in 1..Len(densities) :
                                    densities[n][1] = c.ingredient_name][2]
                   ELSE 1000
        portion == IF \E n \in 1..Len(portion_sizes) :
                        /\ portion_sizes[n][1] = c.ingredient_name
                        /\ portion_sizes[n][2][2] # None
                   THEN portion_sizes[CHOOSE n \in 1..Len(portion_sizes) :
                                        portion_sizes[n][1] = c.ingredient_name][2][2][1]
                   ELSE 100
    IN  c.ingredient_name \in nutrition_db_keys =>
          /\ InTable(WeightTable, unit) =>
               /\ c.result # Raised("AttributeError")
               /\ Micrograms(c.result) = Scale(c.amount, TableValue(WeightTable, unit))
          /\ InTable(VolumeTable, unit) =>
               /\ c.result # Raised("AttributeError")
               /\ Micrograms(c.result)
                    = Scale(c.amount, (TableValue(VolumeTable, unit) \div 1000) * density)
          /\ unit \in CountNames =>
               /\ c.result # Raised("AttributeError")
               /\ Micrograms(c.result) = Scale(c.amount, 1000000 * portion)

\* C9 witness: two cups of flour are 280.593368 g
C9_Witness ==
  /\ Converted(nutrition_call)
  /\ nutrition_call[1].amount = 2
  /\ Strip(Lower(nutrition_call[1].unit)) = <<"c","u","p">>
  /\ nutrition_call[1].ingredient_name = <<"f","l","o","u","r">>
  /\ Micrograms(nutrition_call[1].result) = [ g |-> 280, ug |-> 593368 ]

\* C10: a unit that is no recognized weight, volume or count unit leaves the
\* amount unchanged.
C10_UnknownUnitIsGrams ==
  Converted(nutrition_call) =>
    (Strip(Lower(nutrition_call[1].unit)) \notin RecognizedUnits =>
       nutrition_call[1].result = FromInt(nutrition_call[1].amount))

\* C10 witness: 250 of an unknown unit
C10_Witness ==
  /\ Converted(nutrition_call)
  /\ Strip(Lower(nutrition_call[1].unit)) \notin RecognizedUnits
  /\ nutrition_call[1].amount = 250
  /\ nutrition_call[1].result = FromInt(250)

----------------------------------------------------------------------------
(* Properties of calculate_nutrition and of the analyze-nutrition endpoint *)

Computed(c) == c # None /\ c[1].done /\ c[1].op = "calculate_nutrition"

Analyzed(c) == c # None /\ c[1].done /\ c[1].op = "analyze_nutrition"

\* the ingredient is a dict whose amount and unit are given or left out
WellFormed(ingredient) ==
  /\ ingredient.kind = "dict"
  /\ ingredient.amount # Null
  /\ ingredient.unit # Null

NameOf(ingredient) == Strip(Lower(ingredient.name))

Resolves(ingredient) == find_matching_ingredient(NameOf(ingredient)).key # None

\* the per-100g value the database holds for a reported nutrient
Per100g(key, nutrient) ==
  nutrition_data[RowIndex(key)][IF nutrient = "calories" THEN "calories_per_100g" ELSE nutrient]

\* the grams of a well-formed ingredient, (100, "g") standing for what is
\* left out
GramsOf(ingredient, key) ==
  Micrograms(convert_to_grams(DictGet(ingredient.amount, 100)[2],
                              Lower(DictGet(ingredient.unit, << "g" >>)[2]), key))

\* sum over the matched ingredients from position i on of
\* per-100g value * grams / 100
RECURSIVE ScaledSum(_, _, _)
ScaledSum(ingredients, nutrient, i) ==
  IF i > Len(ingredients) THEN QZero
  ELSE LET match == find_matching_ingredient(NameOf(ingredients[i]))
       IN  QAdd(IF match.key = None THEN QZero
                ELSE ScaleNutrient(Per100g(match.key[1], nutrient),
                                   GramsOf(ingredients[i], match.key[1])),
                ScaledSum(ingredients, nutrient, i + 1))

\* C11: for a list of well-formed ingredients and servings >= 1, each
\* nutrient reported (calories included) is the sum over the matched
\* ingredients of per-100g value * grams / 100, divided by servings and
\* rounded to 2 decimals.
C11_NutrientsAreScaledSums ==
  Computed(nutrition_call) =>
    LET c == nutrition_call[1]
    IN  (c.servings >= 1 /\ \A i \in 1..Len(c.ingredients) : WellFormed(c.ingredients[i])) =>
          \A nutrient \in Nutrients :
            IsRounded(c.result.nutrition[nutrient],
                      ScaledSum(c.ingredients, nutrient, 1), c.servings)

\* the list without its i-th element
Without(list, i) == SubSeq(list, 1, i - 1) \o SubSeq(list, i + 1, Len(list))

\* C12: with servings >= 1, every ingredient of the list whose name resolves
\* to no database entry is in missing_ingredients, and the nutrition is that
\* of the list without it.
C12_UnresolvedIsMissingAndAddsZero ==
  Computed(nutrition_call) =>
    LET c == nutrition_call[1]
    IN  c.servings >= 1 =>
          \A i \in 1..Len(c.ingredients) :
            ~Resolves(c.ingredients[i]) =>
              /\ NameOf(c.ingredients[i]) \in Range(c.result.missing_ingredients)
              /\ c.result.nutrition =
                   calculate_nutrition(Without(c.ingredients, i), c.servings).nutrition

\* sum of the match confidences of the ingredients from position i on that
\* resolve to a database entry
RECURSIVE ConfidenceSum(_, _)
ConfidenceSum(ingredients, i) ==
  IF i > Len(ingredients) THEN 0
  ELSE find_matching_ingredient(NameOf(ingredients[i])).confidence
         + ConfidenceSum(ingredients, i + 1)

\* C13: with servings >= 1, the confidence is the mean of the match
\* confidences of the ingredients that resolve to a database entry, 0.0 when
\* none does, and lies in [0, 1].
C13_ConfidenceIsMeanOfMatched ==
  Computed(nutrition_call) =>
    LET c == nutrition_call[1]
        matched == { i \in 1..Len(c.ingredients) : Resolves(c.ingredients[i]) }
        confidence == c.result.confidence
    IN  c.servings >= 1 =>
          /\ confidence.num >= 0
          /\ confidence.num <= 100 * confidence.den
          /\ matched = { } => confidence.num = 0
          /\ matched # { } =>
               confidence.num * Cardinality(matched)
                 = confidence.den * ConfidenceSum(c.ingredients, 1)

\* C14: every nutrient value of every response the analyze-nutrition
\* endpoint returns is non-negative.
C14_ServiceNutrientsNonNegative ==
  Analyzed(nutrition_call) =>
    LET result == nutrition_call[1].result
    IN  result.response # None =>
          \A nutrient \in Nutrients : result.response[1].nutrition[nutrient] >= 0

\* a request with a negative amount of a database ingredient was answered
C14_Witness ==
  /\ Analyzed(nutrition_call)
  /\ nutrition_call[1].result.status = 200
  /\ \E i \in 1..Len(nutrition_call[1].body.ingredients) :
       LET ingredient == nutrition_call[1].body.ingredients[i]
       IN  /\ ingredient.amount # Null
           /\ ingredient.amount[2] < 0
           /\ find_matching_ingredient(NameOf(ingredient)).key # None

\* C15: the servings the analyze-nutrition endpoint passes to
\* calculate_nutrition is at least 1.
C15_ServingsAtLeastOne ==
  Analyzed(nutrition_call) => nutrition_call[1].result.servings >= 1

\* amount and unit with (100, "g") standing for an absent key and for null
WithDefaults(ingredient) ==
  [ ingredient EXCEPT
      !.amount = IF @ \in { Absent, Null } THEN Value(100) ELSE @,
      !.unit = IF @ \in { Absent, Null } THEN Value(<< "g" >>) ELSE @ ]

\* C16: with servings >= 1, the result for a list of dicts is the result for
\* the same list with (100, "g") written out wherever the amount or the unit
\* is absent or null.
C16_MissingAmountUnitIsHundredGrams ==
  Computed(nutrition_call) =>
    LET c == nutrition_call[1]
    IN  c.servings >= 1 =>
          c.result =
            calculate_nutrition(
              [ i \in 1..Len(c.ingredients) |-> WithDefaults(c.ingredients[i]) ],
              c.servings)

LettersAndSpaces(s) == \A i \in 1..Len(s) : s[i] \in LowerLetters \/ IsSpace(s[i])

\* the words of a list that are no descriptive word
RECURSIVE KeptWords(_)
KeptWords(words) ==
  IF words = << >> THEN << >>
  ELSE (IF Head(words) \in Range(remove_words) THEN << >> ELSE << Head(words) >>)
         \o KeptWords(Tail(words))

\* C17: a name of letters and spaces is cleaned to its words that are no
\* descriptive word, joined by "_": a descriptive word inside a longer word
\* stays.
C17_OnlyWholeWordsRemoved ==
  Matched(nutrition_call) =>
    LET name == Strip(Lower(nutrition_call[1].ingredient_name))
    IN  LettersAndSpaces(name) =>
          clean_ingredient_name(nutrition_call[1].ingredient_name)
            = Join(<< "_" >>, KeptWords(Split(name)))

----------------------------------------------------------------------------
(* generate_meal_plan and find_meal_for_type.  A date is the record of its  *)
(* year, month and day; date + timedelta goes through the ordinal of the    *)
(* date, as datetime.date does.                                             *)

is_leap(year) == year % 4 = 0 /\ (year % 100 # 0 \/ year % 400 = 0)

days_in_month(year, month) ==
  IF month = 2 THEN (IF is_leap(year) THEN 29 ELSE 28)
  ELSE IF month \in { 4, 6, 9, 11 } THEN 30 ELSE 31

days_before_year(year) ==
  LET y == year - 1
  IN  y * 365 + y \div 4 - y \div 100 + y \div 400

RECURSIVE days_before_month(_, _)
days_before_month(year, month) ==
  IF month = 1 THEN 0
  ELSE days_before_month(year, month - 1) + days_in_month(year, month - 1)

\* date.toordinal()
toordinal(d) == days_before_year(d.year) + days_before_month(d.year, d.month) + d.day

\* date.fromordinal(n)
fromordinal(ordinal) ==
  LET n0 == ordinal - 1
      n400 == n0 \div 146097
      r400 == n0 % 146097
      n100 == r400 \div 36524
      r100 == r400 % 36524
      n4 == r100 \div 1461
      r4 == r100 % 1461
      n1 == r4 \div 365
      n == r4 % 365
      year == n400 * 400 + 1 + n100 * 100 + n4 * 4 + n1
  IN  IF n1 = 4 \/ n100 = 4
      THEN [ year |-> year - 1, month |-> 12, day |-> 31 ]
      ELSE LET estimate == (n + 50) \div 32
               month == IF days_before_month(year, estimate) > n
                        THEN estimate - 1 ELSE estimate
           IN  [ year |-> year, month |-> month,
                 day |-> n - days_before_month(year, month) + 1 ]

DigitChars == << "0", "1", "2", "3", "4", "5", "6", "7", "8", "9" >>

\* the last `width` decimal digits of n, zero-padded
RECURSIVE ZeroPadded(_, _)
ZeroPadded(n, width) ==
  IF width = 0 THEN << >>
  ELSE ZeroPadded(n \div 10, width - 1) \o << DigitChars[(n % 10) + 1] >>

\* date.isoformat(): "%04d-%02d-%02d"
isoformat(d) ==
  ZeroPadded(d.year, 4) \o << "-" >> \o ZeroPadded(d.month, 2)
    \o << "-" >> \o ZeroPadded(d.day, 2)

\* start_date + timedelta(days=day) with the day of the plan left out
current_date_StartDate(start_date, day) == start_date

\* start_date + timedelta(days=day)
current_date(start_date, day) == fromordinal(toordinal(start_date) + day)

\* the outcomes of random.choice on a non-empty list
random_choice(list) == Range(list)

\* the query of find_meal_for_type, preference being what random.choice drew
\* from the cuisine preferences (None when the list is empty)
meal_query(meal_type, preference) ==
  meal_type \o << " ", "r", "e", "c", "i", "p", "e" >>
    \o (IF preference = None THEN << >> ELSE << " " >> \o preference[1])

\* lines 489-493: the recipes within the time limit, when a limit is given
\* and is not 0 (a limit of 0 is falsy)
filter_by_time_limit(recipes, time_limit) ==
  LET InTime(r) == r.prep_time + r.cook_time <= time_limit[1]
  IN  IF time_limit # None /\ time_limit[1] # 0 /\ recipes # << >>
      THEN SelectSeq(recipes, InTime)
      ELSE recipes

\* lines 496-499: the recipes that carry the meal type among their lowered tags
filter_by_meal_type(recipes, meal_type) ==
  LET HasTag(r) == meal_type \in { Lower(r.tags[n]) : n \in 1..Len(r.tags) }
  IN  SelectSeq(recipes, HasTag)

\* meal_specific_or_any without the preference for the meal type
meal_specific_or_any_AnyRecipe(meal_recipes, recipes) == recipes

\* lines 502-503: any suitable recipe when none carries the meal type
meal_specific_or_any(meal_recipes, recipes) ==
  IF meal_recipes = << >> /\ recipes # << >> THEN recipes ELSE meal_recipes

\* lines 489-503 on the list find_recipes returned
select_meal_recipes(recipes, meal_type) ==
  meal_specific_or_any(filter_by_meal_type(recipes, meal_type), recipes)

\* what find_meal_for_type holds before the final random.choice, found being
\* what find_recipes gave for the query
MealCandidates(query, found, meal_type, time_limit) ==
  [ database |-> found.database,
    query |-> query,
    found |-> found.recommendations,
    meal_recipes |->
      select_meal_recipes(filter_by_time_limit(found.recommendations, time_limit),
                          meal_type) ]

\* find_meal_for_type up to the final random.choice: the database the call
\* leaves, the query, the list find_recipes returned and the list meal_recipes
\* the result is drawn from (the result is None when it is empty)
find_meal_for_type(database, embeddings, model, meal_type, dietary_restrictions, preference, time_limit) ==
  MealCandidates(meal_query(meal_type, preference),
                 find_recipes(database, embeddings, model,
                              meal_query(meal_type, preference),
                              Some(dietary_restrictions), 5),
                 meal_type, time_limit)

\* the dict appended to meal_plan
day_plan(date, breakfast, lunch, dinner) ==
  [ date |-> isoformat(date),
    breakfast |-> breakfast,
    lunch |-> lunch,
    dinner |-> dinner,
    snacks |-> << >> ]

\* The locals of generate_meal_plan after the awaited find_meal_for_type call
\* returned meal: the meal is kept, and after dinner the day is appended
AfterMeal(c, meal) ==
  IF Len(c.meals) < 2 THEN [ c EXCEPT !.meals = Append(@, meal) ]
  ELSE [ c EXCEPT
           !.meals = << >>,
           !.day = @ + 1,
           !.meal_plan =
             Append(@, day_plan(current_date(c.start_date, c.day),
                                c.meals[1], c.meals[2], meal)) ]

----------------------------------------------------------------------------
(* Calls of generate_meal_plan                                             *)

\* greatest number of days of a plan on a corpus of several recipes
MaxDays == 2

\* greatest days of MealPlanRequest, asked of a corpus of at most one recipe
LongestPlan == 14

MealCorpora ==
  { sample_recipes, extra_recipes, << extra_recipes[3] >> }

PlanRestrictionLists == { None, Some(<< vegetarian >>) }

CuisinePreferenceLists == { None, Some(<< italian, mexican >>) }

CookingTimeLimits == { None, Some(0), Some(5), Some(20) }

\* the values of datetime.now().date()
Todays ==
  { [ year |-> 2024, month |-> 2, day |-> 28 ],
    [ year |-> 2026, month |-> 12, day |-> 31 ] }

\* find_meal_for_type draws from the recipes find_recipes returned whatever
\* their order, so the plans are those of an installation that keeps ties
InitMealPlan ==
  /\ LoadModel(MealCorpora, { "kept" })
  /\ request = None
  /\ response = << >>
  /\ NoCalls
  /\ nutrition_call = None
  /\ meal_plan_call = None
  /\ NoAnalysis
  /\ NotStarted

\* Lines 427-434: the call begins, None arguments become empty lists and the
\* start date is read from the clock
GenerateMealPlan(days, dietary_restrictions, cuisine_preferences, cooking_time_limit, today) ==
  /\ meal_plan_call = None
  /\ IF days <= MaxDays \/ recipe_database = None THEN TRUE
     ELSE Len(recipe_database[1].rows) <= 1
  /\ meal_plan_call' =
       Some([ days |-> days,
              dietary_restrictions |->
                IF dietary_restrictions = None THEN << >> ELSE dietary_restrictions[1],
              cuisine_preferences |->
                IF cuisine_preferences = None THEN << >> ELSE cuisine_preferences[1],
              cooking_time_limit |-> cooking_time_limit,
              start_date |-> today,
              day |-> 0,
              meals |-> << >>,
              meal_plan |-> << >> ])
  /\ UNCHANGED << rank_vars, conc_vars, nutrition_vars,
                    analysis_vars, service_vars >>

\* Lines 506-509 and the return to generate_meal_plan: the meal drawn from
\* the candidates r of find_meal_for_type, None when there is none
ReturnMeal(c, r) ==
  \E meal \in IF r.meal_recipes = << >> THEN { None }
              ELSE { Some(m) : m \in random_choice(r.meal_recipes) } :
    /\ recipe_database' = r.database
    /\ request' = Some([ query |-> r.query,
                         dietary_restrictions |-> Some(c.dietary_restrictions),
                         max_results |-> 5 ])
    /\ response' = r.found
    /\ meal_plan_call' = Some(AfterMeal(c, meal))
    /\ UNCHANGED << recipe_embeddings, sentence_model, argsort_ties, conc_vars, nutrition_vars,
                    analysis_vars, service_vars >>

\* One awaited find_meal_for_type call of the loop (lines 440-453) and, after
\* dinner, lines 455-463; the plan is returned when day reaches days
FindMealForType ==
  /\ meal_plan_call # None
  /\ meal_plan_call[1].day < meal_plan_call[1].days
  /\ \E preference \in
          IF meal_plan_call[1].cuisine_preferences = << >> THEN { None }
          ELSE { Some(p) : p \in random_choice(meal_plan_call[1].cuisine_preferences) } :
       ReturnMeal(meal_plan_call[1],
                  find_meal_for_type(recipe_database, recipe_embeddings,
                                     sentence_model,
                                     MealTypes[Len(meal_plan_call[1].meals) + 1],
                                     meal_plan_call[1].dietary_restrictions,
                                     preference,
                                     meal_plan_call[1].cooking_time_limit))

NextMealPlan ==
  \/ \E days \in (1..MaxDays) \cup { LongestPlan },
        dietary_restrictions \in PlanRestrictionLists,
        cuisine_preferences \in CuisinePreferenceLists,
        cooking_time_limit \in CookingTimeLimits,
        today \in Todays :
       GenerateMealPlan(days, dietary_restrictions, cuisine_preferences,
                        cooking_time_limit, today)
  \/ FindMealForType

SpecMealPlan == InitMealPlan /\ [][NextMealPlan]_vars

----------------------------------------------------------------------------
(* Properties of generate_meal_plan                                        *)

\* the call has returned its meal_plan
Returned(c) == c # None /\ c[1].day = c[1].days

\* the calendar day after d
NextDay(d) ==
  IF d.day < days_in_month(d.year, d.month) THEN [ d EXCEPT !.day = @ + 1 ]
  ELSE IF d.month < 12 THEN [ year |-> d.year, month |-> d.month + 1, day |-> 1 ]
  ELSE [ year |-> d.year + 1, month |-> 1, day |-> 1 ]

CharValue(ch) == CHOOSE n \in 0..9 : DigitChars[n + 1] = ch

RECURSIVE NumberOf(_)
NumberOf(chars) ==
  IF chars = << >> THEN 0
  ELSE NumberOf(SubSeq(chars, 1, Len(chars) - 1)) * 10 + CharValue(chars[Len(chars)])

\* the date a string YYYY-MM-DD names
DateOf(s) ==
  [ year |-> NumberOf(SubSeq(s, 1, 4)),
    month |-> NumberOf(SubSeq(s, 6, 7)),
    day |-> NumberOf(SubSeq(s, 9, 10)) ]

IsIsoDate(s) ==
  /\ Len(s) = 10
  /\ s[5] = "-"
  /\ s[8] = "-"
  /\ \A i \in { 1, 2, 3, 4, 6, 7, 9, 10 } : s[i] \in Range(DigitChars)

\* C18: the plan generate_meal_plan returns for days in 1..14 has exactly
\* `days` entries; entry 1 carries the start date and every later entry the
\* calendar day after the entry before it, so the dates strictly increase;
\* each entry has breakfast, lunch, dinner and an empty snacks list.
C18_OneEntryPerConsecutiveDay ==
  Returned(meal_plan_call) =>
    LET c == meal_plan_call[1]
        plan == c.meal_plan
    IN  /\ Len(plan) = c.days
        /\ \A k \in 1..Len(plan) :
             /\ DOMAIN plan[k] = { "date", "breakfast", "lunch", "dinner", "snacks" }
             /\ plan[k].snacks = << >>
             /\ IsIsoDate(plan[k].date)
             /\ DateOf(plan[k].date) =
                  IF k = 1 THEN c.start_date ELSE NextDay(DateOf(plan[k - 1].date))
             /\ k > 1 => toordinal(DateOf(plan[k].date))
                           > toordinal(DateOf(plan[k - 1].date))

\* a plan of 14 days begun on 2024-02-28 was returned: it passes the leap day
\* and ends on 2024-03-12, and its first breakfast is a recipe
C18_Witness ==
  /\ Returned(meal_plan_call)
  /\ meal_plan_call[1].days = LongestPlan
  /\ Len(meal_plan_call[1].meal_plan) = LongestPlan
  /\ meal_plan_call[1].meal_plan[2].date = << "2", "0", "2", "4", "-", "0", "2", "-", "2", "9" >>
  /\ meal_plan_call[1].meal_plan[LongestPlan].date
       = << "2", "0", "2", "4", "-", "0", "3", "-", "1", "2" >>
  /\ meal_plan_call[1].meal_plan[1].breakfast # None

\* the slots filled so far, of the days appended and of the day in progress
Slots(c) ==
  UNION { { c.meal_plan[k].breakfast, c.meal_plan[k].lunch, c.meal_plan[k].dinner } :
            k \in 1..Len(c.meal_plan) }
    \cup Range(c.meals)

\* C19: when a cooking_time_limit is given (0 included), every slot that is
\* not null holds a recipe with prep_time + cook_time <= cooking_time_limit.
C19_SlotsWithinTimeLimit ==
  meal_plan_call # None =>
    LET c == meal_plan_call[1]
    IN  c.cooking_time_limit # None =>
          \A slot \in Slots(c) :
            slot # None =>
              slot[1].prep_time + slot[1].cook_time <= c.cooking_time_limit[1]

\* the recipes of the corpus that pass the restrictions and the time limit of
\* the call
Satisfying(c) ==
  { i \in 1..Len(recipe_database[1].rows) :
      LET row == recipe_database[1].rows[i]
      IN  /\ ~Violates(row.text_representation, c.dietary_restrictions)
          /\ \/ c.cooking_time_limit = None
             \/ row.prep_time + row.cook_time <= c.cooking_time_limit[1] }

\* C20: when at least one recipe of the corpus passes the dietary
\* restrictions and the cooking-time limit, no slot is null.
C20_NullOnlyIfNoneSatisfies ==
  (meal_plan_call # None /\ recipe_database # None) =>
    (Satisfying(meal_plan_call[1]) # { } => None \notin Slots(meal_plan_call[1]))

----------------------------------------------------------------------------
(* generate_pairings and estimate_difficulty                               *)

\* load_pairing_rules: (food type, pairing list), in the order of the dict
pairing_rules ==
  <<
     << <<"p","a","s","t","a">>,
        << <<"r","e","d"," ","w","i","n","e">>, <<"g","a","r","l","i","c"," ","b","r","e","a","d">>, <<"c","a","e","s","a","r"," ","s","a","l","a","d">>, <<"p","a","r","m","e","s","a","n"," ","c","h","e","e","s","e">> >> >>,
     << <<"c","h","i","c","k","e","n">>,
        << <<"w","h","i","t","e"," ","w","i","n","e">>, <<"r","o","a","s","t","e","d"," ","v","e","g","e","t","a","b","l","e","s">>, <<"r","i","c","e"," ","p","i","l","a","f">>, <<"l","e","m","o","n">> >> >>,
     << <<"b","e","e","f">>,
        << <<"r","e","d"," ","w","i","n","e">>, <<"m","a","s","h","e","d"," ","p","o","t","a","t","o","e","s">>, <<"r","o","a","s","t","e","d"," ","r","o","o","t"," ","v","e","g","e","t","a","b","l","e","s">>, <<"h","o","r","s","e","r","a","d","i","s","h">> >> >>,
     << <<"f","i","s","h">>,
        << <<"w","h","i","t","e"," ","w","i","n","e">>, <<"l","e","m","o","n">>, <<"a","s","p","a","r","a","g","u","s">>, <<"q","u","i","n","o","a">> >> >>,
     << <<"s","a","l","a","d">>,
        << <<"v","i","n","a","i","g","r","e","t","t","e">>, <<"c","r","u","s","t","y"," ","b","r","e","a","d">>, <<"w","h","i","t","e"," ","w","i","n","e">>, <<"o","l","i","v","e"," ","o","i","l">> >> >>,
     << <<"c","u","r","r","y">>,
        << <<"n","a","a","n"," ","b","r","e","a","d">>, <<"b","a","s","m","a","t","i"," ","r","i","c","e">>, <<"m","a","n","g","o"," ","c","h","u","t","n","e","y">>, <<"l","a","s","s","i">> >> >>,
     << <<"m","e","x","i","c","a","n">>,
        << <<"l","i","m","e">>, <<"a","v","o","c","a","d","o">>, <<"c","i","l","a","n","t","r","o">>, <<"m","e","x","i","c","a","n"," ","b","e","e","r">>, <<"s","a","l","s","a">> >> >>,
     << <<"i","t","a","l","i","a","n">>,
        << <<"o","l","i","v","e"," ","o","i","l">>, <<"b","a","s","i","l">>, <<"t","o","m","a","t","o","e","s">>, <<"i","t","a","l","i","a","n"," ","w","i","n","e">>, <<"p","a","r","m","e","s","a","n">> >> >>,
     << <<"a","s","i","a","n">>,
        << <<"j","a","s","m","i","n","e"," ","r","i","c","e">>, <<"g","r","e","e","n"," ","t","e","a">>, <<"s","e","s","a","m","e"," ","o","i","l">>, <<"s","o","y"," ","s","a","u","c","e">> >> >>,
     << <<"b","r","e","a","k","f","a","s","t">>,
        << <<"c","o","f","f","e","e">>, <<"o","r","a","n","g","e"," ","j","u","i","c","e">>, <<"f","r","e","s","h"," ","f","r","u","i","t">>, <<"t","o","a","s","t">> >> >>,
     << <<"d","e","s","s","e","r","t">>,
        << <<"c","o","f","f","e","e">>, <<"d","e","s","s","e","r","t"," ","w","i","n","e">>, <<"v","a","n","i","l","l","a"," ","i","c","e"," ","c","r","e","a","m">>, <<"w","h","i","p","p","e","d"," ","c","r","e","a","m">> >> >>
  >>

\* Line 363 and .lower(): the lowered name of an ingredient, None when it
\* raises.  An ingredient is a str, a dict (its "name" key absent, null or
\* set) or an IngredientInput object; a dict without "name" yields itself,
\* and neither a dict, None nor an IngredientInput has lower()
ingredient_lower(ingredient) ==
  IF ingredient.kind \in { "str", "dict" } /\ ingredient.name[1] = "value"
  THEN Some(Lower(ingredient.name[2]))
  ELSE None

\* lines 366-368 for one ingredient: the lists of the food types that occur
\* in the lowered name
IngredientPairings(rules, name) ==
  UNION { Range(rules[n][2]) : n \in { m \in 1..Len(rules) : Contains(name, rules[m][1]) } }

\* lines 371-380: the list under the lowered cuisine or category, when it is
\* given, not empty and a key of the rules
KeyPairings(rules, key) ==
  IF key = None \/ key[1] = << >> THEN { }
  ELSE UNION { Range(rules[n][2]) : n \in { m \in 1..Len(rules) : rules[m][1] = Lower(key[1]) } }

\* lines 383-387 keeping the suggestions that name an ingredient
RemoveIngredients_KeepAll(pairings, ingredient_names) == pairings

\* lines 383-387: the suggestions whose lowered text is no ingredient name
RemoveIngredients(pairings, ingredient_names) ==
  { p \in pairings : Lower(p) \notin ingredient_names }

\* some statement of the try block raises: a name without lower(), or the
\* rules of a recommender whose load_model did not complete (None) are read
PairingsRaise(rules, ingredients, cuisine, category) ==
  \/ \E i \in 1..Len(ingredients) : ingredient_lower(ingredients[i]) = None
  \/ /\ rules = None
     /\ \/ ingredients # << >>
        \/ cuisine # None /\ cuisine[1] # << >>
        \/ category # None /\ category[1] # << >>

\* the set pairings after line 387, for a call that does not raise
PairingCandidates(rules, ingredients, cuisine, category) ==
  RemoveIngredients(
    UNION { IngredientPairings(rules, ingredient_lower(ingredients[i])[1]) :
              i \in 1..Len(ingredients) }
      \cup KeyPairings(rules, cuisine) \cup KeyPairings(rules, category),
    { ingredient_lower(ingredients[i])[1] : i \in 1..Len(ingredients) })

RECURSIVE Arrangements(_, _)
\* list(S)[:n] for a set S: the first n elements in any iteration order
Arrangements(S, n) ==
  IF n = 0 \/ S = { } THEN { << >> }
  ELSE UNION { { << x >> \o t : t \in Arrangements(S \ { x }, n - 1) } : x \in S }

\* The lists generate_pairings may return: the order of a set of str is not
\* fixed by the program (str hashes differ from run to run)
generate_pairings(rules, ingredients, cuisine, category) ==
  IF PairingsRaise(rules, ingredients, cuisine, category) THEN { << >> }
  ELSE IF rules = None THEN { << >> }
  ELSE Arrangements(PairingCandidates(rules[1], ingredients, cuisine, category), 5)

complex_techniques ==
  << <<"f","o","l","d">>,
     <<"w","h","i","s","k">>,
     <<"e","m","u","l","s","i","f","y">>,
     <<"t","e","m","p","e","r","i","n","g">>,
     <<"j","u","l","i","e","n","n","e">>,
     <<"b","r","u","n","o","i","s","e">>,
     <<"f","l","a","m","b","é">>,
     <<"s","o","u","s"," ","v","i","d","e">>,
     <<"c","o","n","f","i","t">>,
     <<"b","r","a","i","s","e">>,
     <<"r","e","d","u","c","e">>,
     <<"c","l","a","r","i","f","y">> >>

\* line 407: the number of techniques that occur in the text
technique_count(instruction_text) ==
  Cardinality({ n \in 1..Len(complex_techniques) :
                  Contains(instruction_text, complex_techniques[n]) })

\* lines 411-416 with the step limits excluded
difficulty_StrictLimits(num_steps, count) ==
  IF num_steps < 3 /\ count = 0 THEN "Easy"
  ELSE IF num_steps < 6 /\ count <= 1 THEN "Medium"
  ELSE "Hard"

\* lines 411-416
difficulty(num_steps, count) ==
  IF num_steps <= 3 /\ count = 0 THEN "Easy"
  ELSE IF num_steps <= 6 /\ count <= 1 THEN "Medium"
  ELSE "Hard"

\* estimate_difficulty on a list of str
estimate_difficulty(instructions) ==
  difficulty(Len(instructions), technique_count(Lower(Join(<< " " >>, instructions))))

----------------------------------------------------------------------------
(* Calls of generate_pairings and estimate_difficulty                      *)

PairingIngredients ==
  { [ kind |-> "str", name |-> Value(<<"C","h","i","c","k","e","n"," ","B","r","e","a","s","t">>) ],
    [ kind |-> "dict", name |-> Value(<<"F","r","e","s","h"," ","F","i","s","h">>) ],
    [ kind |-> "dict", name |-> Value(<<"L","E","M","O","N">>) ],
    [ kind |-> "dict", name |-> Absent ],
    [ kind |-> "IngredientInput", name |-> Value(<<"p","a","s","t","a">>) ] }

Lime == [ kind |-> "str", name |-> Value(<<"L","i","m","e">>) ]

\* the rules of a loaded recommender, and None for one whose load_model raised
RuleTables == { Some(pairing_rules), None }

\* calls on recipes of several ingredients whose cuisine and category are no
\* food type, and calls with a cuisine and a category that are
PairingCalls ==
  { [ op |-> "generate_pairings", rules |-> r, ingredients |-> l,
      cuisine |-> c, category |-> k, done |-> FALSE ] :
      r \in RuleTables, l \in IngredientLists(PairingIngredients),
      c \in { None, Some(<<"F","r","e","n","c","h">>) }, k \in { None, Some(<< >>) } }
  \cup
  { [ op |-> "generate_pairings", rules |-> Some(pairing_rules), ingredients |-> l,
      cuisine |-> c, category |-> k, done |-> FALSE ] :
      l \in { << >>, << Lime >> },
      c \in { Some(<<"M","e","x","i","c","a","n">>) },
      k \in { None, Some(<<"D","E","S","S","E","R","T">>) } }

\* greatest number of instructions of a recipe
MaxSteps == 7

Instructions ==
  { <<"S","t","i","r">>,
    <<"F","L","A","M","B","É">>,
    <<"W","H","I","S","K"," ","s","o","u","s">>,
    <<"v","i","d","e"," ","a","n","d"," ","f","o","l","d">> }

DifficultyCalls ==
  { [ op |-> "estimate_difficulty", instructions |-> l, done |-> FALSE ] :
      l \in UNION { [ 1..n -> Instructions ] : n \in 0..MaxSteps } }

InitAnalysis ==
  /\ recipe_database = None
  /\ recipe_embeddings = None
  /\ sentence_model = "broken"
  /\ argsort_ties = "kept"
  /\ request = None
  /\ response = << >>
  /\ NoCalls
  /\ nutrition_call = None
  /\ meal_plan_call = None
  /\ analysis_call \in { Some(c) : c \in PairingCalls \cup DifficultyCalls }
  /\ NotStarted

GeneratePairings ==
  /\ analysis_call # None
  /\ ~analysis_call[1].done
  /\ analysis_call[1].op = "generate_pairings"
  /\ \E result \in generate_pairings(analysis_call[1].rules, analysis_call[1].ingredients,
                                     analysis_call[1].cuisine, analysis_call[1].category) :
       analysis_call' =
         Some([ op |-> "generate_pairings",
                rules |-> analysis_call[1].rules,
                ingredients |-> analysis_call[1].ingredients,
                cuisine |-> analysis_call[1].cuisine,
                category |-> analysis_call[1].category,
                done |-> TRUE,
                result |-> result ])
  /\ UNCHANGED << rank_vars, conc_vars, nutrition_vars, plan_vars, service_vars >>

EstimateDifficulty ==
  /\ analysis_call # None
  /\ ~analysis_call[1].done
  /\ analysis_call[1].op = "estimate_difficulty"
  /\ analysis_call' =
       Some([ op |-> "estimate_difficulty",
              instructions |-> analysis_call[1].instructions,
              done |-> TRUE,
              result |-> estimate_difficulty(analysis_call[1].instructions) ])
  /\ UNCHANGED << rank_vars, conc_vars, nutrition_vars, plan_vars, service_vars >>

NextAnalysis ==
  \/ GeneratePairings
  \/ EstimateDifficulty

SpecAnalysis == InitAnalysis /\ [][NextAnalysis]_vars

Paired(c) == c # None /\ c[1].done /\ c[1].op = "generate_pairings"

Estimated(c) == c # None /\ c[1].done /\ c[1].op = "estimate_difficulty"

\* the lowered names of the ingredients that have one
LowerNames(ingredients) ==
  { Lower(ingredients[i].name[2]) :
      i \in { j \in 1..Len(ingredients) : ingredients[j].name[1] = "value" } }

\* the key of a rule is a substring of a lowered ingredient name, or is the
\* lowered cuisine or the lowered category
RuleApplies(key, c) ==
  \/ \E name \in LowerNames(c.ingredients) : Contains(name, key)
  \/ c.cuisine # None /\ key = Lower(c.cuisine[1])
  \/ c.category # None /\ key = Lower(c.category[1])

\* C21: generate_pairings returns at most 5 suggestions, no two of them
\* equal, none equal to the name of an ingredient of the recipe when both are
\* lowered, and each one listed under a food type that occurs in an
\* ingredient name or is the lowered cuisine or category.
C21_PairingsBoundedAndApplicable ==
  Paired(analysis_call) =>
    LET c == analysis_call[1]
        result == c.result
    IN  /\ Len(result) <= 5
        /\ \A i, j \in 1..Len(result) : i # j => result[i] # result[j]
        /\ \A i \in 1..Len(result) : Lower(result[i]) \notin LowerNames(c.ingredients)
        /\ \A i \in 1..Len(result) :
             \E n \in 1..Len(pairing_rules) :
               /\ result[i] \in Range(pairing_rules[n][2])
               /\ RuleApplies(pairing_rules[n][1], c)

\* 5 suggestions were returned for a recipe with more applicable suggestions,
\* one of which names an ingredient
C21_Witness ==
  /\ Paired(analysis_call)
  /\ Len(analysis_call[1].result) = 5
  /\ \E n \in 1..Len(pairing_rules) :
       /\ RuleApplies(pairing_rules[n][1], analysis_call[1])
       /\ Range(pairing_rules[n][2]) \cap LowerNames(analysis_call[1].ingredients) # { }
  /\ \E n \in 1..Len(pairing_rules) :
       /\ RuleApplies(pairing_rules[n][1], analysis_call[1])
       /\ \E p \in Range(pairing_rules[n][2]) :
            /\ p \notin Range(analysis_call[1].result)
            /\ p \notin LowerNames(analysis_call[1].ingredients)

\* the techniques found in the lowered text of the instructions
TechniquesFound(instructions) ==
  { t \in Range(complex_techniques) : Contains(Lower(Join(<< " " >>, instructions)), t) }

IsEasy(instructions) ==
  Len(instructions) <= 3 /\ TechniquesFound(instructions) = { }

IsMedium(instructions) ==
  /\ ~IsEasy(instructions)
  /\ Len(instructions) <= 6
  /\ Cardinality(TechniquesFound(instructions)) <= 1

\* C22: estimate_difficulty returns Easy exactly when there are at most 3
\* steps and no technique, Medium exactly when that is not so and there are
\* at most 6 steps and at most one technique, and Hard otherwise.
C22_DifficultyRule ==
  Estimated(analysis_call) =>
    LET c == analysis_call[1]
    IN  /\ c.result = "Easy" <=> IsEasy(c.instructions)
        /\ c.result = "Medium" <=> IsMedium(c.instructions)
        /\ c.result = "Hard" <=> (~IsEasy(c.instructions) /\ ~IsMedium(c.instructions))

\* six steps with exactly one technique are Medium
C22_Witness ==
  /\ Estimated(analysis_call)
  /\ Len(analysis_call[1].instructions) = 6
  /\ Cardinality(TechniquesFound(analysis_call[1].instructions)) = 1
  /\ analysis_call[1].result = "Medium"

----------------------------------------------------------------------------
(* The lazily created models of main.py.  An instance is the record of      *)
(* whether its load_model completed; load_model completes or raises (each   *)
(* of the four catches its errors, logs them and raises again).  The        *)
(* getters hold no suspension point that lets another request run, so each  *)
(* getter call is one step.                                                 *)

LoadOutcomes == { "completed", "raised" }

\* X() followed by "await X.load_model()" that ends with outcome
NewInstance(outcome) == [ loaded |-> (outcome = "completed") ]

\* Lines 56-82, one getter on the global it reads: the global it leaves,
\* whether load_model completed in this call, whether the call raised, and
\* the instance returned (None when it raised)
get_model(global, outcome) ==
  IF global = None
  THEN [ global |-> Some(NewInstance(outcome)),
         completed |-> (outcome = "completed"),
         raised |-> (outcome = "raised"),
         instance |-> IF outcome = "raised" THEN None ELSE Some(NewInstance(outcome)) ]
  ELSE [ global |-> global, completed |-> FALSE, raised |-> FALSE, instance |-> global ]

\* the globals and the completion counts after the getter of name returned r
AfterGetter(name, r) ==
  /\ model_instance' = [ model_instance EXCEPT ![name] = r.global ]
  /\ load_completions' =
       [ load_completions EXCEPT ![name] = IF r.completed THEN @ + 1 ELSE @ ]

\* Lines 84-95: startup_event loads the food model and then the nutrition
\* analyzer; an error of the first skips the second, and both are logged
StartupEvent(food_outcome, nutrition_outcome) ==
  /\ ~serving
  /\ serving' = TRUE
  /\ model_instance' =
       [ model_instance EXCEPT
           !["food_model"] = get_model(@, food_outcome).global,
           !["nutrition_analyzer"] =
             IF get_model(model_instance["food_model"], food_outcome).raised THEN @
             ELSE get_model(@, nutrition_outcome).global ]
  /\ load_completions' =
       [ load_completions EXCEPT
           !["food_model"] = IF food_outcome = "completed" THEN @ + 1 ELSE @,
           !["nutrition_analyzer"] =
             IF food_outcome = "completed" /\ nutrition_outcome = "completed"
             THEN @ + 1 ELSE @ ]
  /\ UNCHANGED << handed_out, status_report >>
  /\ UNCHANGED << rank_vars, conc_vars, nutrition_vars, plan_vars, analysis_vars >>

\* A request resolves Depends(get_<name>): the endpoint is given the instance,
\* or the request fails when the getter raises
DependencyGetter(name, outcome) ==
  /\ serving
  /\ AfterGetter(name, get_model(model_instance[name], outcome))
  /\ handed_out' =
       Some([ model |-> name,
              raised |-> get_model(model_instance[name], outcome).raised,
              instance |-> get_model(model_instance[name], outcome).instance ])
  /\ UNCHANGED << status_report, serving >>
  /\ UNCHANGED << rank_vars, conc_vars, nutrition_vars, plan_vars, analysis_vars >>

\* Lines 272-282: GET /models/status
models_status == [ name \in ModelNames |-> model_instance[name] # None ]

ModelsStatus ==
  /\ serving
  /\ status_report' = Some(models_status)
  /\ UNCHANGED << model_instance, load_completions, handed_out, serving >>
  /\ UNCHANGED << rank_vars, conc_vars, nutrition_vars, plan_vars, analysis_vars >>

InitService ==
  /\ recipe_database = None
  /\ recipe_embeddings = None
  /\ sentence_model = "broken"
  /\ argsort_ties = "kept"
  /\ request = None
  /\ response = << >>
  /\ NoCalls
  /\ nutrition_call = None
  /\ meal_plan_call = None
  /\ NoAnalysis
  /\ NotStarted

NextService ==
  \/ \E food_outcome \in LoadOutcomes, nutrition_outcome \in LoadOutcomes :
       StartupEvent(food_outcome, nutrition_outcome)
  \/ \E name \in ModelNames, outcome \in LoadOutcomes : DependencyGetter(name, outcome)
  \/ ModelsStatus

SpecService == InitService /\ [][NextService]_vars

\* C28: a getter hands out only an instance whose load_model completed,
\* /models/status reports a model as loaded only when its load_model
\* completed, and load_model completes at most once per model (so that a
\* failed load is made again by the next request).
C28_OnlyLoadedModelsServed ==
  /\ (handed_out # None /\ ~handed_out[1].raised) =>
       (handed_out[1].instance # None /\ handed_out[1].instance[1].loaded)
  /\ status_report # None =>
       \A name \in ModelNames :
         status_report[1][name] =>
           (model_instance[name] # None /\ model_instance[name][1].loaded)
  /\ \A name \in ModelNames : load_completions[name] <= 1

----------------------------------------------------------------------------
(* The matcher on the keys of its own tables and on names with quantities  *)

\* C23: when the normalised name is neither a database key nor an alias key
\* and its best cosine similarity with the corpus exceeds 0.3,
\* find_matching_ingredient returns a database key, also when the best corpus
\* entry is a plural or a space variant of a key.
C23_FuzzyAboveThresholdResolves ==
  Matched(nutrition_call) =>
    LET cleaned == clean_ingredient_name(nutrition_call[1].ingredient_name)
        similarities == Similarities(cleaned)
        result == nutrition_call[1].result
    IN  ( /\ cleaned \notin nutrition_db_keys
          /\ cleaned \notin alias_keys
          /\ similarities[ArgMax(similarities)] > 90 )
          => (result.key # None /\ result.key[1] \in nutrition_db_keys)

\* C24: a database key given as the name is normalised to itself and
\* resolves to itself with confidence 1.0; an alias key is normalised to
\* itself and resolves to its target with confidence 0.95.
C24_KeysResolveToThemselves ==
  Matched(nutrition_call) =>
    LET name == nutrition_call[1].ingredient_name
        result == nutrition_call[1].result
    IN  /\ name \in nutrition_db_keys =>
             /\ clean_ingredient_name(name) = name
             /\ result = [ key |-> Some(name), confidence |-> 100 ]
        /\ name \in alias_keys =>
             /\ clean_ingredient_name(name) = name
             /\ result = [ key |-> Some(AliasTarget(name)), confidence |-> 95 ]

\* the words of a name are a numeral followed by words of letters
NumeralThenWords(words) ==
  /\ Len(words) >= 2
  /\ \A k \in 1..Len(words[1]) : IsDigit(words[1][k])
  /\ LettersAndSpaces(Join(<< " " >>, Tail(words)))

\* C25: a name made of a numeral and words is cleaned as the words without
\* the numeral are, and without the first word when that word is a unit of
\* the quantity pattern: a word that only begins with a unit abbreviation
\* stays whole.
C25_UnitStrippedOnlyAsWholeToken ==
  Matched(nutrition_call) =>
    LET words == Split(Strip(Lower(nutrition_call[1].ingredient_name)))
    IN  NumeralThenWords(words) =>
          clean_ingredient_name(nutrition_call[1].ingredient_name)
            = clean_ingredient_name(
                Join(<< " " >>,
                     IF words[2] \in Range(quantity_units)
                     THEN SubSeq(words, 3, Len(words))
                     ELSE Tail(words)))

\* the key under which convert_to_grams would find the table entry of the
\* ingredient: its cleaned name when a table lists it, else the matched key
OwnEntryKey(ingredient, key) ==
  LET cleaned == clean_ingredient_name(NameOf(ingredient))
  IN  IF cleaned \in density_keys \cup portion_keys THEN cleaned ELSE key

\* ScaledSum with every ingredient converted with its own table entry
RECURSIVE OwnEntrySum(_, _, _)
OwnEntrySum(ingredients, nutrient, i) ==
  IF i > Len(ingredients) THEN QZero
  ELSE LET match == find_matching_ingredient(NameOf(ingredients[i]))
       IN  QAdd(IF match.key = None THEN QZero
                ELSE ScaleNutrient(Per100g(match.key[1], nutrient),
                                   GramsOf(ingredients[i],
                                           OwnEntryKey(ingredients[i], match.key[1]))),
                OwnEntrySum(ingredients, nutrient, i + 1))

\* C30: an ingredient whose name is a key of the density table or of the
\* portion table is matched under a key that finds that entry: for a list of
\* well-formed ingredients and servings >= 1 every accumulated nutrient is
\* computed with the grams the ingredient's own density or portion entry
\* gives, not the default's.
C30_ConvertedWithOwnTableEntry ==
  Computed(nutrition_call) =>
    LET c == nutrition_call[1]
    IN  (c.servings >= 1 /\ \A i \in 1..Len(c.ingredients) : WellFormed(c.ingredients[i])) =>
          \A nutrient \in Nutrients \cap RowLabels :
            IsRounded(c.result.nutrition[nutrient],
                      OwnEntrySum(c.ingredients, nutrient, 1), c.servings)

----------------------------------------------------------------------------
(* The except branch of calculate_nutrition                                *)

\* the iteration on the ingredient raises: an object without get, a null
\* unit (None.lower()), or a null amount on a name that resolves (None
\* multiplied in convert_to_grams or divided by 100 after it)
Raises(ingredient) ==
  \/ ingredient.kind # "dict"
  \/ ingredient.unit = Null
  \/ ingredient.amount = Null /\ Resolves(ingredient)

\* C27: calculate_nutrition returns a result on every call, and when the
\* iteration on some ingredient raises or servings is 0 the result is the
\* all-zero nutrition with confidence 0.0 and no missing ingredient,
\* whatever the ingredients before had contributed.
C27_ExceptionGivesZeroResult ==
  Computed(nutrition_call) =>
    LET c == nutrition_call[1]
    IN  ( \/ c.servings = 0
          \/ \E i \in 1..Len(c.ingredients) : Raises(c.ingredients[i]) ) =>
          /\ \A nutrient \in Nutrients : c.result.nutrition[nutrient] = 0
          /\ c.result.confidence.num = 0
          /\ c.result.missing_ingredients = << >>

\* a matched ingredient with a positive amount and an unresolved one are
\* followed by an ingredient that raises, and the result is all zero
C27_Witness ==
  /\ Computed(nutrition_call)
  /\ nutrition_call[1].servings >= 1
  /\ Len(nutrition_call[1].ingredients) = 2
  /\ Raises(nutrition_call[1].ingredients[2])
  /\ ~Raises(nutrition_call[1].ingredients[1])
  /\ Resolves(nutrition_call[1].ingredients[1])
  /\ nutrition_call[1].ingredients[1].amount = Value(200)
  /\ nutrition_call[1].result = ErrorResult

----------------------------------------------------------------------------
(* The meal-type preference of find_meal_for_type                          *)

\* some find_meal_for_type call of the plan has returned
SlotFilled(c) == c.meals # << >> \/ c.meal_plan # << >>

\* the meal type and the result of the find_meal_for_type call that returned
\* last
LastSlot(c) ==
  IF c.meals # << >>
  THEN [ meal_type |-> MealTypes[Len(c.meals)], meal |-> c.meals[Len(c.meals)] ]
  ELSE [ meal_type |-> MealTypes[3], meal |-> c.meal_plan[Len(c.meal_plan)].dinner ]

\* the recipes the last call held at line 495, after the restrictions were
\* applied by find_recipes and the time limit by lines 489-493
Survivors(c) == Range(filter_by_time_limit(response, c.cooking_time_limit))

CarriesTag(recipe, meal_type) ==
  \E n \in 1..Len(recipe.tags) : Lower(recipe.tags[n]) = meal_type

TaggedSurvivors(c) == { r \in Survivors(c) : CarriesTag(r, LastSlot(c).meal_type) }

\* C26: the result of find_meal_for_type is None exactly when no recipe
\* survived the filters; it is a survivor carrying the meal type among its
\* lowered tags when some survivor does, and any survivor otherwise.
C26_MealTypePreferred ==
  (meal_plan_call # None /\ SlotFilled(meal_plan_call[1])) =>
    LET c == meal_plan_call[1]
        meal == LastSlot(c).meal
    IN  /\ meal = None <=> Survivors(c) = { }
        /\ meal # None =>
             meal[1] \in (IF TaggedSurvivors(c) # { } THEN TaggedSurvivors(c)
                          ELSE Survivors(c))

\* a survivor carries the meal type, another does not, and the tagged one
\* was returned
C26_Witness ==
  /\ meal_plan_call # None
  /\ SlotFilled(meal_plan_call[1])
  /\ TaggedSurvivors(meal_plan_call[1]) # { }
  /\ TaggedSurvivors(meal_plan_call[1]) # Survivors(meal_plan_call[1])
  /\ LastSlot(meal_plan_call[1]).meal # None
  /\ CarriesTag(LastSlot(meal_plan_call[1]).meal[1], LastSlot(meal_plan_call[1]).meal_type)

\* no survivor carries the meal type and a survivor was returned
C26_FallbackReached ==
  /\ meal_plan_call # None
  /\ SlotFilled(meal_plan_call[1])
  /\ TaggedSurvivors(meal_plan_call[1]) = { }
  /\ LastSlot(meal_plan_call[1]).meal # None

----------------------------------------------------------------------------
(* Restriction names the filter does not know                              *)

KnownRestrictions == { vegetarian, vegan, gluten_free }

IsKnown(restriction) == Lower(restriction) \in KnownRestrictions

\* the restriction list without the names the filter does not know
KnownOnly(restrictions) == SelectSeq(restrictions, IsKnown)

\* C29: a restriction name other than vegetarian, vegan and gluten-free
\* removes no recipe: the frame the filter returns for the list of the call is
\* the frame it returns for the list without such names, and the call returns
\* what it returns for that list.
C29_UnknownRestrictionIsNoOp ==
  (request # None /\ recipe_database # None) =>
    /\ filter_by_dietary_restrictions(AsLoaded(recipe_database)[1],
                                      RequestRestrictions).df
         = filter_by_dietary_restrictions(AsLoaded(recipe_database)[1],
                                          KnownOnly(RequestRestrictions)).df
    /\ response = find_recipes(AsLoaded(recipe_database), recipe_embeddings,
                               sentence_model, request[1].query,
                               Some(KnownOnly(RequestRestrictions)),
                               request[1].max_results).recommendations

\* a call whose list holds an unknown name and vegetarian returned recipes,
\* and vegetarian removed a recipe of the corpus
C29_Witness ==
  /\ request # None
  /\ recipe_database # None
  /\ KnownOnly(RequestRestrictions) # << >>
  /\ KnownOnly(RequestRestrictions) # RequestRestrictions
  /\ response # << >>
  /\ \E i \in 1..Len(recipe_database[1].rows) :
       Violates(recipe_database[1].rows[i].text_representation, RequestRestrictions)

====
